---- MODULE Spec2Model ----
(***************************************************************************)
(* QueryFi payment pipeline: the off-chain payment ledger                  *)
(* (settlement-tracker), the settlement coordinator (settlement-service),  *)
(* the query endpoint's payment-proof check (api/query/route.ts) and the   *)
(* counters of the on-chain settlement hook that the coordinator drives,   *)
(* the state-channel payment client (YellowPaymentClient) and the hook's   *)
(* own transactions (deposits, settlements, threshold and payer policy).   *)
(*                                                                         *)
(* JavaScript runs each handler to its next await without interruption, so *)
(* an action is the code between two awaits; the environment (RPC node,    *)
(* timers, HTTP clients) chooses the outcome of every awaited call.        *)
(* Date.now() timestamps are not modelled: no behaviour depends on them.   *)
(* The backing store of the ledger is taken to accept every write.         *)
(***************************************************************************)
EXTENDS Integers, Sequences, FiniteSets, TLC

(* ------------------------------ bounds --------------------------------- *)
\* settlement invocations (manual triggers and auto-settle calls) in a run
NumInvocations == 2
\* recordPayment calls in a run
MaxPayments == 2
\* requests to the query endpoint in a run
MaxRequests == 3
\* highest version a payment proof carries
MaxVersion == 2
\* resetAfterSettlement calls on the Postgres ledger in a run
NumResets == 2
\* calls of YellowPaymentClient methods that can be in progress at once
NumCallers == 2
\* initialDeposit of a payment session
MaxDeposit == 2
\* highest stateVersion at which the caller still starts a micropayment
MaxStateVersion == 2
\* WebSocket objects the client creates in a run
NumSockets == 2
\* requests the relay holds unanswered at a time
MaxUnanswered == 2
\* transactions sent to the settlement hook in a run
MaxTxs == 4

(* ------------------------- program constants --------------------------- *)
SETTLEMENT_THRESHOLD == 1000000
MAX_RETRIES == 3
RETRY_BASE_DELAY_MS == 2000
MIN_DEPOSIT == 1000
DEFAULT_QUERY_COST_MICRO_USDC == 10000
MIN_THRESHOLD == 10000
\* the threshold the hook's constructor sets (1e6)
DEFAULT_SETTLEMENT_THRESHOLD == 1000000

NULL == "null"
Invocations == 1..NumInvocations
Requests == 1..MaxRequests
SessionIds == {"s1", "s2"}
ResetCalls == 1..NumResets

\* prices the endpoint converts to micro-USDC: 0.0005 USDC and 1 USDC
PaymentAmounts == {MIN_DEPOSIT \div 2, SETTLEMENT_THRESHOLD}
\* USDC the hook holds as its pre-funded reserve when the run starts: enough
\* to pay one threshold-sized settlement and not a second
HookReserve == SETTLEMENT_THRESHOLD

VARIABLES
    \* settlement-tracker.ts: PersistedState
    accumulatedAmount, payments, lastSettlementTime, settlementHistory,
    \* settlement-service.ts
    settlementInProgress,
    inv,            \* per invocation: position and locals of triggerOnChainSettlement
    \* MicropaymentSettlementHook.sol on Base Sepolia
    settlementCount, totalSettled, hookBalance, agentBalance,
    \* api/query/route.ts
    sessionVersions,
    req,            \* per request: position and locals of POST
    \* the Postgres ledger (settlement-tracker over Drizzle)
    paymentsTable,  \* the rows of table payments, by timestamp
    dbReset,        \* per resetAfterSettlement call: position and the rows it read
    \* history variables
    nRecorded,      \* recordPayment calls so far
    sinceReset,     \* sum of the amounts recorded since the last reset
    accepted,       \* per session id: the proof versions accepted, in order
    \* YellowPaymentClient (lib/yellow-client): the fields of the object
    client,         \* ws, connected, authenticated, appSessionId, stateVersion,
                    \* userBalance, agentBalance, pingInterval
    pendingRequests,\* the Map, in insertion order: <<[method, owner]>>
    call,           \* per caller: the client method it runs, position and locals
    timer,          \* per caller: the method tag its live wait timer deletes, or NULL
    readyState,     \* per WebSocket: its readyState
    connectTimeout, \* per WebSocket: its connect timer is live
    outbox,         \* per WebSocket: requests the relay received and has not answered
    deposit,        \* history: initialDeposit of the latest createPaymentSession call
    lastResult,     \* history: the version in the latest PaymentResult returned for
                    \* the session appSessionId names
    \* settlement hook: deposit side (MicropaymentSettlementHook / ArcSettlementHook)
    accumulatedBalance, settlementThreshold, authorizedPayers,
    payerFunds,     \* USDC each payer holds and has approved to the hook
    tx              \* history: the last transaction sent to the hook and its outcome

ledgerVars == <<accumulatedAmount, payments, lastSettlementTime, settlementHistory>>
chainVars == <<settlementCount, totalSettled, hookBalance, agentBalance>>
queryVars == <<sessionVersions, req, accepted>>
dbVars == <<paymentsTable, dbReset>>
\* what the file ledger and the coordinator never touch
clientVars == <<client, pendingRequests, call, timer, readyState, connectTimeout,
                outbox, deposit, lastResult>>
depositVars == <<accumulatedBalance, settlementThreshold, authorizedPayers, payerFunds, tx>>
outsidePipeline == <<clientVars, depositVars>>
outsideSettlement == <<queryVars, dbVars, outsidePipeline>>
vars == <<accumulatedAmount, payments, lastSettlementTime, settlementHistory,
          settlementInProgress, inv,
          settlementCount, totalSettled, hookBalance, agentBalance,
          sessionVersions, req, paymentsTable, dbReset,
          nRecorded, sinceReset, accepted,
          client, pendingRequests, call, timer, readyState, connectTimeout, outbox,
          deposit, lastResult,
          accumulatedBalance, settlementThreshold, authorizedPayers, payerFunds, tx>>
pipelineVars == <<ledgerVars, settlementInProgress, inv, chainVars, queryVars, dbVars,
                  nRecorded, sinceReset>>

(* ------------------------------ helpers -------------------------------- *)
RECURSIVE SumAmounts(_)
SumAmounts(ps) == IF ps = <<>> THEN 0 ELSE ps[1].amount + SumAmounts(Tail(ps))

RECURSIVE Pow2(_)
Pow2(n) == IF n = 0 THEN 1 ELSE 2 * Pow2(n - 1)

QueryIds(ps) == [k \in 1..Len(ps) |-> ps[k].queryId]

\* the id of the n-th query of the run (unique per query)
QueryIdOf(n) == ToString(n)

(* --------------------------- settlement-tracker ------------------------ *)
getAccumulated == accumulatedAmount

getPayments == payments

shouldSettle == accumulatedAmount >= SETTLEMENT_THRESHOLD

\* mutant: the payment is stored and the running total is not updated
recordPayment_forgetsTotal(queryId, amountMicroUsdc) ==
    /\ accumulatedAmount' = accumulatedAmount
    /\ payments' = Append(payments, [queryId |-> queryId, amount |-> amountMicroUsdc])

recordPayment(queryId, amountMicroUsdc) ==
    /\ accumulatedAmount' = accumulatedAmount + amountMicroUsdc
    /\ payments' = Append(payments, [queryId |-> queryId, amount |-> amountMicroUsdc])

\* what resetAfterSettlement returns
Settled == [amount |-> accumulatedAmount, payments |-> payments]

resetAfterSettlement ==
    /\ accumulatedAmount' = 0
    /\ payments' = <<>>
    /\ lastSettlementTime' = "set"

\* mutant: the record replaces the history instead of being appended to it
addSettlementToHistory_replaces(record) ==
    settlementHistory' = <<record>>

addSettlementToHistory(record) ==
    settlementHistory' = Append(settlementHistory, record)

(* ----------------------- MicropaymentSettlementHook -------------------- *)
\* recordSettlement(amount, queryId) sent by the agent wallet
RecordSettlementReverts(amount) == amount < MIN_DEPOSIT

recordSettlement(amount) ==
    /\ settlementCount' = settlementCount + 1
    /\ totalSettled' = totalSettled + amount
    /\ IF hookBalance >= amount
         THEN /\ hookBalance' = hookBalance - amount
              /\ agentBalance' = agentBalance + amount
         ELSE UNCHANGED <<hookBalance, agentBalance>>

(* --------------------------- settlement-service ------------------------ *)
IdleInvocation ==
    [pc |-> "idle", kind |-> NULL, accumulated |-> 0, latestQueryId |-> NULL,
     attempt |-> 0, lastError |-> NULL, response |-> NULL, waited |-> <<>>,
     txHash |-> NULL, arcTxHash |-> NULL,
     settled |-> <<>>, result |-> <<>>, error |-> NULL, onChain |-> 0]

\* a request whose body carries no payment proof reads as this one
NoPayment == [appSessionId |-> "", version |-> 0]

IdleRequest == [pc |-> "idle", payment |-> NoPayment, status |-> 0]

(* ------------------------- YellowPaymentClient ------------------------- *)
Callers == 1..NumCallers
\* the WebSocket objects the client creates in a run, in this order
Sockets == 1..NumSockets
\* this.ws = null
NoSocket == 0
\* the id the relay gives a session opened over a socket
AppSessionIdOn(s) == IF s = 1 THEN "a1" ELSE "a2"
\* amounts a caller passes to sendMicropayment
MicroAmounts == {1, MaxDeposit + 1}
\* largest userBalance from which a caller still starts a (negative) payment
MaxBalance == MaxDeposit + 1

\* no PaymentResult carries the session id yet
NoResult == [issued |-> FALSE, version |-> 0]

\* the fields of a new YellowPaymentClient; signers stands for authSigner and
\* sessionSigner, which connect() sets together
NewClient ==
    [ws |-> NoSocket, signers |-> FALSE, appSessionId |-> NULL, stateVersion |-> 0,
     userBalance |-> 0, agentBalance |-> 0, connected |-> FALSE,
     authenticated |-> FALSE, pingInterval |-> FALSE]

\* a caller's slot: op is the method it runs, pc where that method stands,
\* wait the tag of the promise it awaits, early how a promise that is registered
\* and not yet awaited was settled, error the Error it threw
IdleCall ==
    [op |-> "none", pc |-> "idle", sock |-> NoSocket, wait |-> "", amount |-> 0,
     newUserBalance |-> 0, newAgentBalance |-> 0, early |-> "", error |-> ""]

(* ------------------- settlement hook, deposit side --------------------- *)
AGENT == "agentWallet"
ZERO_ADDRESS == "address(0)"
\* accounts that send transactions: the agent, a payer and an outsider
Accounts == {AGENT, "payer", "outsider"}
\* USDC a non-agent account holds (and has approved) when the run starts
PayerFunds == 2 * MIN_THRESHOLD
\* the hook's own address, as the holder of its token balance
HOOK == "hook"
\* the last transaction sent to the hook: the function, msg.sender, its amount
\* and address arguments, the error it reverted with ("" when it did not
\* revert), its number in the run and the nested call made during it
\* a call into the hook: the function, msg.sender and the arguments
NoCall == [fn |-> "none", sender |-> "", amount |-> 0, payer |-> ""]
\* the call the token made back into the hook during a transfer, and the error
\* that call reverted with ("" when it executed)
NoNested == [call |-> NoCall, error |-> ""]
NoTx ==
    [fn |-> "none", sender |-> "", amount |-> 0, payer |-> "", error |-> "", n |-> 0,
     nested |-> NoNested]

Init ==
    /\ client = NewClient
    /\ pendingRequests = <<>>
    /\ call = [c \in Callers |-> IdleCall]
    /\ timer = [c \in Callers |-> NULL]
    /\ readyState = [s \in Sockets |-> "UNUSED"]
    /\ connectTimeout = [s \in Sockets |-> FALSE]
    /\ outbox = [s \in Sockets |-> {}]
    /\ deposit = 0
    /\ lastResult = NoResult
    /\ accumulatedBalance = 0
    /\ settlementThreshold = DEFAULT_SETTLEMENT_THRESHOLD
    /\ authorizedPayers = {AGENT}
    /\ payerFunds = [a \in Accounts \ {AGENT} |-> PayerFunds]
    /\ tx = NoTx
    /\ accumulatedAmount = 0
    /\ payments = <<>>
    /\ lastSettlementTime = NULL
    /\ settlementHistory = <<>>
    /\ settlementInProgress = FALSE
    /\ inv = [i \in Invocations |-> IdleInvocation]
    /\ settlementCount = 0
    /\ totalSettled = 0
    /\ hookBalance = HookReserve
    /\ agentBalance = 0
    /\ sessionVersions = [s \in SessionIds |-> 0]
    /\ req = [r \in Requests |-> IdleRequest]
    /\ paymentsTable = <<>>
    /\ dbReset = [c \in ResetCalls |-> [pc |-> "idle", rows |-> <<>>]]
    /\ nRecorded = 0
    /\ sinceReset = 0
    /\ accepted = [s \in SessionIds |-> <<>>]

(* withRetry *)
RetryDelayMs(attempt) == RETRY_BASE_DELAY_MS * Pow2(attempt - 1)

\* mutant: one attempt too many
ShouldRetry_offByOne(attempt) == attempt <= MAX_RETRIES

ShouldRetry(attempt) == attempt < MAX_RETRIES

\* what one recordSettlement attempt can come to: a transaction hash; the
\* transaction mined but the RPC response timing out ("lost"); a nonce race or
\* an RPC timeout with nothing mined; the contract rejecting the call
PrimaryOutcomes(amount) ==
    IF RecordSettlementReverts(amount)
      THEN {"revert", "timeout"}
      ELSE {"hash", "lost", "nonce"}

ErrorOf(out) ==
    CASE out = "revert" -> "AmountTooSmall"
      [] out = "nonce" -> "NonceRace"
      [] OTHER -> "RpcTimeout"

TakesEffect(out) == out \in {"hash", "lost"}

\* settleOnArc: the hash of the Arc deposit, or null when Arc is not
\* configured (no ARC_SETTLEMENT_HOOK_ADDRESS) or the call fails
ArcOutcomes == {"hash", "error", "unconfigured"}

settleOnArc(out) == IF out = "hash" THEN "0xarc" ELSE NULL

\* mutant: the secondary chain is listed whether or not its call succeeded
Chains_always(arcTxHash) == <<"base-sepolia", "arc-testnet">>

Chains(arcTxHash) ==
    IF arcTxHash # NULL THEN <<"base-sepolia", "arc-testnet">> ELSE <<"base-sepolia">>

\* an error leaves triggerOnChainSettlement: the caller of a manual trigger
\* sees it, checkAndAutoSettle logs it and returns null
Leave(rec, err) ==
    [rec EXCEPT !.pc = IF rec.kind = "auto" THEN "returned" ELSE "threw",
                !.error = err]

\* mutant: the in-progress flag is not consulted
Locked_ignored == FALSE

\* the single-flight test at the head of triggerOnChainSettlement
Locked == settlementInProgress

\* triggerOnChainSettlement from its call to its first await
TriggerStart(i, k) ==
    IF Locked
      THEN /\ inv' = [inv EXCEPT ![i] =
                        Leave([@ EXCEPT !.kind = k], "Settlement already in progress")]
           /\ UNCHANGED settlementInProgress
      ELSE IF getAccumulated = 0
        THEN /\ inv' = [inv EXCEPT ![i] =
                          Leave([@ EXCEPT !.kind = k], "No accumulated payments to settle")]
             /\ UNCHANGED settlementInProgress
        ELSE /\ settlementInProgress' = TRUE
             /\ inv' = [inv EXCEPT ![i] =
                          [@ EXCEPT !.pc = "primary",
                                    !.kind = k,
                                    !.accumulated = getAccumulated,
                                    !.latestQueryId =
                                        IF getPayments = <<>> THEN "settlement"
                                        ELSE getPayments[Len(getPayments)].queryId,
                                    !.attempt = 1]]

\* mutant: the ledger is reset on the way out of a failed settlement
ThrowLastError_resets(i, rec) ==
    /\ settlementInProgress' = FALSE
    /\ inv' = [inv EXCEPT ![i] = Leave(rec, rec.lastError)]
    /\ resetAfterSettlement
    /\ UNCHANGED settlementHistory

\* mutant: the flag is cleared on the success path only, not in a finally
ThrowLastError_keepsFlag(i, rec) ==
    /\ inv' = [inv EXCEPT ![i] = Leave(rec, rec.lastError)]
    /\ UNCHANGED <<settlementInProgress, ledgerVars>>

\* withRetry gives up: the last error is thrown and the finally block runs
ThrowLastError(i, rec) ==
    /\ settlementInProgress' = FALSE
    /\ inv' = [inv EXCEPT ![i] = Leave(rec, rec.lastError)]
    /\ UNCHANGED ledgerVars

\* checkAndAutoSettle from its call to its first await
checkAndAutoSettle(i) ==
    IF ~shouldSettle \/ settlementInProgress
      THEN UNCHANGED <<inv, settlementInProgress>>   \* returns null, nothing started
      ELSE TriggerStart(i, "auto")

\* invocations are numbered in the order in which they are called
NextCall(i) == inv[i].pc = "idle" /\ \A j \in 1..(i - 1) : inv[j].pc # "idle"

(* ------------------------------- actions ------------------------------- *)
\* the query endpoint records the payment of a query
RecordPayment(amount) ==
    /\ nRecorded < MaxPayments
    /\ recordPayment(QueryIdOf(nRecorded + 1), amount)
    /\ nRecorded' = nRecorded + 1
    /\ sinceReset' = sinceReset + amount
    /\ UNCHANGED <<lastSettlementTime, settlementHistory, settlementInProgress, inv,
                   chainVars, outsideSettlement>>

\* POST settlement-trigger
TriggerOnChainSettlement(i) ==
    /\ NextCall(i)
    /\ TriggerStart(i, "manual")
    /\ UNCHANGED <<ledgerVars, chainVars, nRecorded, sinceReset, outsideSettlement>>

CheckAndAutoSettle(i) ==
    /\ NextCall(i)
    /\ checkAndAutoSettle(i)
    /\ UNCHANGED <<ledgerVars, chainVars, nRecorded, sinceReset, outsideSettlement>>

\* the recordSettlement call of the current attempt comes back
PrimaryResponse(i, out) ==
    /\ inv[i].pc = "primary"
    /\ out \in PrimaryOutcomes(inv[i].accumulated)
    /\ IF TakesEffect(out)
         THEN recordSettlement(inv[i].accumulated)
         ELSE UNCHANGED chainVars
    /\ IF out = "hash"
         THEN /\ inv' = [inv EXCEPT ![i] =
                           [@ EXCEPT !.pc = "arc", !.txHash = "0xbase",
                                     !.response = out, !.onChain = @ + 1]]
              /\ UNCHANGED <<settlementInProgress, ledgerVars>>
         ELSE LET rec == [inv[i] EXCEPT
                            !.lastError = ErrorOf(out),
                            !.response = out,
                            !.onChain = @ + (IF TakesEffect(out) THEN 1 ELSE 0)]
              IN IF ShouldRetry(rec.attempt)
                   THEN /\ inv' = [inv EXCEPT ![i] =
                                     [rec EXCEPT !.pc = "backoff",
                                                 !.waited = Append(@, RetryDelayMs(rec.attempt))]]
                        /\ UNCHANGED <<settlementInProgress, ledgerVars>>
                   ELSE ThrowLastError(i, rec)
    /\ UNCHANGED <<nRecorded, sinceReset, outsideSettlement>>

\* the backoff timer fires and the next attempt is sent
BackoffElapsed(i) ==
    /\ inv[i].pc = "backoff"
    /\ inv' = [inv EXCEPT ![i] = [@ EXCEPT !.pc = "primary", !.attempt = @ + 1]]
    /\ UNCHANGED <<ledgerVars, settlementInProgress, chainVars,
                   nRecorded, sinceReset, outsideSettlement>>

\* settleOnArc comes back; reset, history append and return follow without an await
ArcResponse(i, out) ==
    /\ inv[i].pc = "arc"
    /\ out \in ArcOutcomes
    /\ LET arcTxHash == settleOnArc(out)
           settled == Settled
           settlementResult ==
               [transactionId |-> inv[i].txHash,
                arcTransactionHash |-> arcTxHash,
                amount |-> settled.amount,
                queryIds |-> QueryIds(settled.payments),
                chains |-> Chains(arcTxHash)]
       IN /\ resetAfterSettlement
          /\ addSettlementToHistory(settlementResult)
          /\ inv' = [inv EXCEPT ![i] =
                       [@ EXCEPT !.pc = "returned", !.arcTxHash = arcTxHash, !.settled = <<settled>>,
                                 !.result = <<settlementResult>>]]
    /\ settlementInProgress' = FALSE
    /\ sinceReset' = 0
    /\ UNCHANGED <<chainVars, nRecorded, outsideSettlement>>

Next ==
    \/ \E amount \in PaymentAmounts : RecordPayment(amount)
    \/ \E i \in Invocations : TriggerOnChainSettlement(i)
    \/ \E i \in Invocations : CheckAndAutoSettle(i)
    \/ \E i \in Invocations, out \in {"hash", "lost", "timeout", "nonce", "revert"} :
          PrimaryResponse(i, out)
    \/ \E i \in Invocations : BackoffElapsed(i)
    \/ \E i \in Invocations, out \in ArcOutcomes : ArcResponse(i, out)

Spec == Init /\ [][Next]_vars

(* ------------------------- api/query/route.ts -------------------------- *)
\* the payment proofs a request body can carry
Payments ==
    [appSessionId : SessionIds \cup {""}, version : 0..MaxVersion]

\* the validation of the payment proof (a missing proof fails it too)
ValidProof(payment) ==
    /\ payment.appSessionId # ""
    /\ payment.version > 0

\* mutant: a proof as old as the last accepted one passes
IsStale_strict(version, lastVersion) == version < lastVersion

IsStale(version, lastVersion) == version <= lastVersion

\* micro-USDC charged for a query: the price of the body, or the default
AmountsCharged == {DEFAULT_QUERY_COST_MICRO_USDC, SETTLEMENT_THRESHOLD}

\* requests are numbered in the order in which they arrive
QueryArrive(r) ==
    /\ req[r].pc = "idle"
    /\ \A q \in 1..(r - 1) : req[q].pc # "idle"
    /\ req' = [req EXCEPT ![r].pc = "parsing"]
    /\ UNCHANGED <<ledgerVars, settlementInProgress, inv, chainVars, dbVars,
                   sessionVersions, nRecorded, sinceReset, accepted, outsidePipeline>>

\* the handler returns; of its locals the model keeps the answer, and the
\* proof when the answer is that the proof is stale
Respond(r, payment, status) ==
    req' = [req EXCEPT ![r] = [pc |-> "responded", payment |-> payment, status |-> status]]

\* the body is parsed: validation, replay check, and the call of the agent
QueryCheck(r, hasQuery, hasQueryId, payment) ==
    /\ req[r].pc = "parsing"
    /\ IF ~hasQuery \/ ~hasQueryId
         THEN /\ Respond(r, NoPayment, 400)
              /\ UNCHANGED <<sessionVersions, accepted>>
         ELSE IF ~ValidProof(payment)
           THEN /\ Respond(r, NoPayment, 402)
                /\ UNCHANGED <<sessionVersions, accepted>>
           ELSE IF IsStale(payment.version, sessionVersions[payment.appSessionId])
             THEN /\ Respond(r, payment, 402)
                  /\ UNCHANGED <<sessionVersions, accepted>>
             ELSE /\ sessionVersions' =
                       [sessionVersions EXCEPT ![payment.appSessionId] = payment.version]
                  /\ accepted' = [accepted EXCEPT ![payment.appSessionId] =
                                     Append(@, payment.version)]
                  /\ req' = [req EXCEPT ![r].pc = "agent"]
    /\ UNCHANGED <<ledgerVars, settlementInProgress, inv, chainVars, dbVars,
                   nRecorded, sinceReset, outsidePipeline>>

\* mutant: the payment is recorded although the agent failed
QueryAgentFails_records(r) ==
    /\ req[r].pc = "agent"
    /\ nRecorded < MaxRequests
    /\ Respond(r, NoPayment, 500)
    /\ recordPayment(QueryIdOf(nRecorded + 1), DEFAULT_QUERY_COST_MICRO_USDC)
    /\ nRecorded' = nRecorded + 1
    /\ sinceReset' = sinceReset + DEFAULT_QUERY_COST_MICRO_USDC
    /\ UNCHANGED <<lastSettlementTime, settlementHistory, settlementInProgress, inv,
                   chainVars, dbVars, sessionVersions, accepted, outsidePipeline>>

\* runDefiAgent throws: the handler answers 500
QueryAgentFails(r) ==
    /\ req[r].pc = "agent"
    /\ Respond(r, NoPayment, 500)
    /\ UNCHANGED <<ledgerVars, settlementInProgress, inv, chainVars, dbVars,
                   sessionVersions, nRecorded, sinceReset, accepted, outsidePipeline>>

\* runDefiAgent answers and the payment is recorded
QueryAgentAnswers(r, amountMicroUsdc) ==
    /\ req[r].pc = "agent"
    /\ nRecorded < MaxRequests
    /\ req' = [req EXCEPT ![r].pc = "recorded"]
    /\ recordPayment(QueryIdOf(nRecorded + 1), amountMicroUsdc)
    /\ nRecorded' = nRecorded + 1
    /\ sinceReset' = sinceReset + amountMicroUsdc
    /\ UNCHANGED <<lastSettlementTime, settlementHistory, settlementInProgress, inv,
                   chainVars, dbVars, sessionVersions, accepted, outsidePipeline>>

\* checkAndAutoSettle is called and not awaited, and the handler answers 200
QueryAutoSettle(r) ==
    /\ req[r].pc = "recorded"
    /\ Respond(r, NoPayment, 200)
    /\ \E i \in Invocations : NextCall(i) /\ checkAndAutoSettle(i)
    /\ UNCHANGED <<ledgerVars, chainVars, dbVars, sessionVersions, nRecorded,
                   sinceReset, accepted, outsidePipeline>>

\* The endpoint. What the settlement it starts does afterwards neither reads
\* nor writes the endpoint's state; Spec explores it.
NextQuery ==
    \/ \E r \in Requests : QueryArrive(r)
    \/ \E r \in Requests, hasQuery \in BOOLEAN, hasQueryId \in BOOLEAN, payment \in Payments :
          QueryCheck(r, hasQuery, hasQueryId, payment)
    \/ \E r \in Requests : QueryAgentFails(r)
    \/ \E r \in Requests, amount \in AmountsCharged : QueryAgentAnswers(r, amount)
    \/ \E r \in Requests : QueryAutoSettle(r)

SpecQuery == Init /\ [][NextQuery]_vars

(* ---------------- settlement-tracker over Postgres (Drizzle) ----------- *)
\* every function of this tracker awaits its statements: a call is one
\* action per statement
DbGetAccumulated == SumAmounts(paymentsTable)

\* recordPayment: one INSERT
DbRecordPayment(amountMicroUsdc) ==
    /\ nRecorded < MaxPayments
    /\ paymentsTable' = Append(paymentsTable,
                               [queryId |-> QueryIdOf(nRecorded + 1),
                                amount |-> amountMicroUsdc])
    /\ nRecorded' = nRecorded + 1
    /\ UNCHANGED <<ledgerVars, settlementInProgress, inv, chainVars, queryVars,
                   dbReset, sinceReset, outsidePipeline>>

\* resetAfterSettlement, first statement: SELECT the rows
DbResetSelect(c) ==
    /\ dbReset[c].pc = "idle"
    /\ \A d \in 1..(c - 1) : dbReset[d].pc # "idle"
    /\ dbReset' = [dbReset EXCEPT ![c] = [pc |-> "selected", rows |-> paymentsTable]]
    /\ UNCHANGED <<ledgerVars, settlementInProgress, inv, chainVars, queryVars,
                   paymentsTable, nRecorded, sinceReset, outsidePipeline>>

\* resetAfterSettlement, second statement: DELETE every row; the rows read
\* by the first statement are returned
DbResetDelete(c) ==
    /\ dbReset[c].pc = "selected"
    /\ paymentsTable' = <<>>
    /\ dbReset' = [dbReset EXCEPT ![c].pc = "returned"]
    /\ UNCHANGED <<ledgerVars, settlementInProgress, inv, chainVars, queryVars,
                   nRecorded, sinceReset, outsidePipeline>>

NextDb ==
    \/ \E amount \in PaymentAmounts : DbRecordPayment(amount)
    \/ \E c \in ResetCalls : DbResetSelect(c)
    \/ \E c \in ResetCalls : DbResetDelete(c)

SpecDb == Init /\ [][NextDb]_vars

(* ------------------------- YellowPaymentClient ------------------------- *)
(* One action per stretch of a method between two awaits.  A promise that *)
(* is settled resumes its awaiting method in the microtask that follows,   *)
(* before any other event is handled, so settling a wait and the resumed   *)
(* stretch of the method form one action.                                  *)

\* pendingRequests: a Map keeps its keys in insertion order, and set() on a
\* key that is present replaces the value in place
HasKey(pr, method) == \E k \in 1..Len(pr) : pr[k].method = method

MapGet(pr, method) == pr[CHOOSE k \in 1..Len(pr) : pr[k].method = method].owner

MapSet(pr, method, c) ==
    IF HasKey(pr, method)
      THEN [k \in 1..Len(pr) |->
               IF pr[k].method = method THEN [method |-> method, owner |-> c] ELSE pr[k]]
      ELSE Append(pr, [method |-> method, owner |-> c])

MapDelete(pr, method) == SelectSeq(pr, LAMBDA e : e.method # method)

Owners(pr) == {pr[k].owner : k \in 1..Len(pr)}

\* a request as the relay receives it: its method and the allocations it carries
Message(method, user, agent) == [method |-> method, user |-> user, agent |-> agent]

\* the readyState of this.ws
\* this.ws.send(msg): a TypeError when this.ws is null, an InvalidStateError
\* while the socket is still connecting; a socket that is closing or closed
\* drops the data without an error
Transport == IF client.ws = NoSocket THEN "NONE" ELSE readyState[client.ws]

SendThrows == Transport \in {"NONE", "CONNECTING", "ABORTING"}

wsSend(msg) ==
    outbox' = IF Transport = "OPEN"
                THEN [outbox EXCEPT ![client.ws] = @ \cup {msg}]
                ELSE outbox

\* ws.close() on socket s
Closed(rs, s) ==
    IF s = NoSocket THEN rs
    ELSE [rs EXCEPT ![s] = IF @ = "CONNECTING" THEN "ABORTING"
                           ELSE IF @ = "OPEN" THEN "CLOSING" ELSE @]

\* a caller's slot can take a new call: its last call is over and the timer of
\* a wait that call registered is gone
Free(c) == call[c].pc \in {"idle", "returned", "threw"} /\ timer[c] = NULL

\* callers are numbered in the order in which they start
NextCaller(c) == Free(c) /\ \A d \in 1..(c - 1) : ~Free(d)

\* caller c starts a method: rec is its frame; the outcomes of the calls that
\* are over have been consumed
Start(c, rec) == [d \in Callers |-> IF d = c THEN rec
                                    ELSE IF Free(d) THEN IdleCall ELSE call[d]]

\* the method throws err; its locals are gone
Threw(rec, err) == [IdleCall EXCEPT !.op = rec.op, !.pc = "threw", !.error = err]

\* the method returns; its locals are gone
Returned(rec) == [IdleCall EXCEPT !.op = rec.op, !.pc = "returned"]

\* pending.reject(err) as the owner sees it: a method that awaits the promise
\* throws; authenticate() has registered the auth_verify wait before it awaits
\* it and meets the rejection later; a method that is over does not see it
Rejected(rec, err) ==
    IF rec.pc = "waiting" THEN Threw(rec, err)
    ELSE IF rec.pc = "authSign" THEN [rec EXCEPT !.early = err]
    ELSE rec

\* waitForRawResponse(method, timeoutMs), then this.ws.send(msg), then await
RegisterAndSend(c, method, msg) ==
    /\ pendingRequests' = MapSet(pendingRequests, method, c)
    /\ timer' = [timer EXCEPT ![c] = method]
    /\ IF SendThrows
         THEN /\ call' = [call EXCEPT ![c] = Threw(@, "TypeError")]
              /\ UNCHANGED outbox
         ELSE /\ call' = [call EXCEPT ![c].pc = "waiting", ![c].wait = method]
              /\ wsSend(msg)
              /\ \A s \in Sockets : Cardinality(outbox'[s]) <= MaxUnanswered

\* mutant: the keepalive interval is left running
stopPingLoop_keeps(cl) == cl

stopPingLoop(cl) == [cl EXCEPT !.pingInterval = FALSE]

\* ws.onclose
onclose(cl) == stopPingLoop([cl EXCEPT !.connected = FALSE, !.authenticated = FALSE])

\* connect(): the caller connects a client that has no open transport
Connect(c, s) ==
    /\ NextCaller(c)
    /\ Transport \in {"NONE", "CLOSED"}
    /\ readyState[s] = "UNUSED"
    /\ \A t \in 1..(s - 1) : readyState[t] # "UNUSED"
    /\ client' = [client EXCEPT !.signers = TRUE, !.ws = s]
    /\ readyState' = [readyState EXCEPT ![s] = "CONNECTING"]
    /\ connectTimeout' = [connectTimeout EXCEPT ![s] = TRUE]
    /\ call' = Start(c, [IdleCall EXCEPT !.op = "connect",
                                             !.pc = "connecting", !.sock = s])
    /\ UNCHANGED <<pendingRequests, timer, outbox, deposit, lastResult, depositVars,
                   pipelineVars>>

\* the call of connect() whose promise the handlers of socket s settle
Connecting(c, s) == call[c].op = "connect" /\ call[c].sock = s /\ call[c].pc = "connecting"

\* ws.onopen, up to authenticate()'s first await
SocketOpen(s) ==
    /\ readyState[s] = "CONNECTING"
    /\ readyState' = [readyState EXCEPT ![s] = "OPEN"]
    /\ connectTimeout' = [connectTimeout EXCEPT ![s] = FALSE]
    /\ client' = [client EXCEPT !.connected = TRUE]
    /\ call' = [c \in Callers |->
                  IF Connecting(c, s)
                    THEN IF client.ws = NoSocket \/ ~client.signers
                           THEN Threw(call[c], "Not connected")
                           ELSE [call[c] EXCEPT !.pc = "authReq"]
                    ELSE call[c]]
    /\ UNCHANGED <<pendingRequests, timer, outbox, deposit, lastResult, depositVars,
                   pipelineVars>>

\* authenticate(): createAuthRequestMessage is back; wait for auth_challenge
AuthRequestBuilt(c) ==
    /\ call[c].op = "connect" /\ call[c].pc = "authReq"
    /\ RegisterAndSend(c, "auth_challenge", Message("auth_request", 0, 0))
    /\ UNCHANGED <<client, readyState, connectTimeout, deposit, lastResult, depositVars,
                   pipelineVars>>

\* authenticate(): the wallet signed the challenge, or the user refused
AuthSigned(c, signed) ==
    /\ call[c].op = "connect" /\ call[c].pc = "authSign"
    /\ IF ~signed
         THEN call' = [call EXCEPT ![c] = Threw(@, "User rejected the request")]
       ELSE IF SendThrows
         THEN call' = [call EXCEPT ![c] = Threw(@, "TypeError")]
       ELSE IF call[c].early # ""
         THEN call' = [call EXCEPT ![c] = Threw(@, call[c].early)]
         ELSE call' = [call EXCEPT ![c].pc = "waiting", ![c].wait = "auth_verify"]
    /\ IF signed /\ ~SendThrows
         THEN wsSend(Message("auth_verify", 0, 0))
         ELSE UNCHANGED outbox
    /\ UNCHANGED <<client, pendingRequests, timer, readyState, connectTimeout,
                   deposit, lastResult, depositVars, pipelineVars>>

\* the connect timer of socket s fires
ConnectTimeout(s) ==
    /\ connectTimeout[s]
    /\ connectTimeout' = [connectTimeout EXCEPT ![s] = FALSE]
    /\ call' = [c \in Callers |->
                  IF Connecting(c, s) THEN Threw(call[c], "WebSocket connection timeout")
                  ELSE call[c]]
    /\ readyState' = Closed(readyState, client.ws)
    /\ UNCHANGED <<client, pendingRequests, timer, outbox, deposit, lastResult,
                   depositVars,
                   pipelineVars>>

\* the connection of socket s fails before it opened: ws.onerror, then ws.onclose
SocketFails(s) ==
    /\ readyState[s] \in {"CONNECTING", "ABORTING"}
    /\ readyState' = [readyState EXCEPT ![s] = "CLOSED"]
    /\ connectTimeout' = [connectTimeout EXCEPT ![s] = FALSE]
    /\ call' = [c \in Callers |->
                  IF Connecting(c, s) THEN Threw(call[c], "WebSocket connection failed")
                  ELSE call[c]]
    /\ client' = onclose(client)
    /\ UNCHANGED <<pendingRequests, timer, outbox, deposit, lastResult, depositVars,
                   pipelineVars>>

\* the transport of an open socket closes: ws.onclose
TransportClose(s) ==
    /\ readyState[s] \in {"OPEN", "CLOSING"}
    /\ readyState' = [readyState EXCEPT ![s] = "CLOSED"]
    /\ outbox' = [outbox EXCEPT ![s] = {}]
    /\ client' = onclose(client)
    /\ UNCHANGED <<pendingRequests, call, timer, connectTimeout, deposit, lastResult,
                   depositVars,
                   pipelineVars>>

\* createPaymentSession(agentAddress, initialDeposit), up to its first await
CreatePaymentSession(c, initialDeposit) ==
    /\ NextCaller(c)
    /\ IF client.ws = NoSocket \/ ~client.signers \/ ~client.authenticated
         THEN /\ call' = Start(c,
                            Threw([IdleCall EXCEPT !.op = "createPaymentSession"],
                                  "Not connected or not authenticated"))
              /\ UNCHANGED <<client, deposit>>
         ELSE /\ deposit' = initialDeposit
              /\ client' = [client EXCEPT !.userBalance = initialDeposit,
                                          !.agentBalance = 0, !.stateVersion = 0]
              /\ call' = Start(c,
                            [IdleCall EXCEPT !.op = "createPaymentSession",
                                             !.pc = "signing", !.amount = initialDeposit])
    /\ UNCHANGED <<pendingRequests, timer, readyState, connectTimeout, outbox,
                   lastResult, depositVars, pipelineVars>>

\* createPaymentSession: createAppSessionMessage is back
CreateSigned(c) ==
    /\ call[c].op = "createPaymentSession" /\ call[c].pc = "signing"
    /\ RegisterAndSend(c, "create_app_session",
                       Message("create_app_session", call[c].amount, 0))
    /\ UNCHANGED <<client, readyState, connectTimeout, deposit, lastResult, depositVars,
                   pipelineVars>>

\* mutant: the balance check is dropped
Insufficient_unchecked(paymentAmount) == FALSE

Insufficient(paymentAmount) == paymentAmount > client.userBalance

\* mutant: the payment is taken from the payer and not credited to the payee
NewAgentBalance_unchanged(paymentAmount) == client.agentBalance

NewAgentBalance(paymentAmount) == client.agentBalance + paymentAmount

\* sendMicropayment(amount, queryId), up to its first await
SendMicropayment(c, paymentAmount) ==
    /\ NextCaller(c)
    /\ IF client.ws = NoSocket \/ ~client.signers \/ client.appSessionId = NULL
         THEN call' = Start(c,
                         Threw([IdleCall EXCEPT !.op = "sendMicropayment",
                                                !.amount = paymentAmount],
                               "No active session"))
       ELSE IF Insufficient(paymentAmount)
         THEN call' = Start(c,
                         Threw([IdleCall EXCEPT !.op = "sendMicropayment",
                                                !.amount = paymentAmount],
                               "Insufficient balance"))
         ELSE call' = Start(c,
                         [IdleCall EXCEPT !.op = "sendMicropayment", !.pc = "signing",
                            !.amount = paymentAmount,
                            !.newUserBalance = client.userBalance - paymentAmount,
                            !.newAgentBalance = NewAgentBalance(paymentAmount)])
    /\ UNCHANGED <<client, pendingRequests, timer, readyState, connectTimeout, outbox,
                   deposit, lastResult, depositVars, pipelineVars>>

\* sendMicropayment: createSubmitAppStateMessage is back
SendSigned(c) ==
    /\ call[c].op = "sendMicropayment" /\ call[c].pc = "signing"
    /\ RegisterAndSend(c, "submit_app_state",
                       Message("submit_app_state", call[c].newUserBalance,
                               call[c].newAgentBalance))
    /\ UNCHANGED <<client, readyState, connectTimeout, deposit, lastResult, depositVars,
                   pipelineVars>>

\* closeSession(), up to its first await; the allocations are read before it
CloseSession(c) ==
    /\ NextCaller(c)
    /\ IF client.ws = NoSocket \/ ~client.signers \/ client.appSessionId = NULL
         THEN call' = Start(c, Returned([IdleCall EXCEPT !.op = "closeSession"]))
         ELSE call' = Start(c,
                         [IdleCall EXCEPT !.op = "closeSession", !.pc = "signing",
                            !.newUserBalance = client.userBalance,
                            !.newAgentBalance = client.agentBalance])
    /\ UNCHANGED <<client, pendingRequests, timer, readyState, connectTimeout, outbox,
                   deposit, lastResult, depositVars, pipelineVars>>

\* closeSession: createCloseAppSessionMessage is back
CloseSigned(c) ==
    /\ call[c].op = "closeSession" /\ call[c].pc = "signing"
    /\ RegisterAndSend(c, "close_app_session",
                       Message("close_app_session", call[c].newUserBalance,
                               call[c].newAgentBalance))
    /\ UNCHANGED <<client, readyState, connectTimeout, deposit, lastResult, depositVars,
                   pipelineVars>>

\* the versions the relay reports in a submit_app_state response, when it
\* reports one
RelayVersions == {1}

\* the tag of the relay's answer to a request
ResponseTag(method) == IF method = "auth_request" THEN "auth_challenge" ELSE method

NoFrame ==
    [method |-> "", success |-> TRUE, app_session_id |-> NULL,
     hasVersion |-> FALSE, version |-> 0]

\* the frames the relay can answer a request with: an error frame, or the
\* response of the request's method with the fields the client reads from it
Frames(s, request) ==
    {[NoFrame EXCEPT !.method = "error"]} \cup
    (CASE request.method = "auth_verify" ->
            {[NoFrame EXCEPT !.method = "auth_verify", !.success = b] : b \in BOOLEAN}
       [] request.method = "create_app_session" ->
            {[NoFrame EXCEPT !.method = "create_app_session",
                             !.app_session_id = AppSessionIdOn(s)]}
       [] request.method = "submit_app_state" ->
            {[NoFrame EXCEPT !.method = "submit_app_state"]} \cup
            {[NoFrame EXCEPT !.method = "submit_app_state", !.hasVersion = TRUE,
                             !.version = v] : v \in RelayVersions}
       [] OTHER -> {[NoFrame EXCEPT !.method = ResponseTag(request.method)]})

\* mutant: a negative verify result is taken for a positive one
VerifyRejected_never(frame) == FALSE

\* authenticate(): verifyResponse.res[2].success === false
VerifyRejected(frame) == frame.success = FALSE

\* pending.resolve(parsed): the method that awaits the promise runs to its next
\* await or to its end
Resolved(o, frame) ==
    LET rec == call[o] IN
    IF ~(rec.pc = "waiting" /\ rec.wait = frame.method)
      THEN /\ call' = [call EXCEPT ![o] =
                         IF rec.pc = "authSign" THEN [rec EXCEPT !.early = "resolved"]
                         ELSE rec]
           /\ pendingRequests' = MapDelete(pendingRequests, frame.method)
           /\ timer' = [timer EXCEPT ![o] = NULL]
           /\ UNCHANGED <<client, lastResult>>
    ELSE IF frame.method = "auth_challenge"
      THEN \* authenticate(): registers the auth_verify wait, then awaits the signer
           /\ pendingRequests' =
                 MapSet(MapDelete(pendingRequests, frame.method), "auth_verify", o)
           /\ timer' = [timer EXCEPT ![o] = "auth_verify"]
           /\ call' = [call EXCEPT ![o].pc = "authSign", ![o].wait = ""]
           /\ UNCHANGED <<client, lastResult>>
    ELSE /\ pendingRequests' = MapDelete(pendingRequests, frame.method)
         /\ timer' = [timer EXCEPT ![o] = NULL]
         /\ CASE frame.method = "auth_verify" ->
                   /\ IF ~VerifyRejected(frame)
                        THEN /\ client' = [client EXCEPT !.authenticated = TRUE,
                                                         !.pingInterval = TRUE]
                             /\ call' = [call EXCEPT ![o] = Returned(rec)]
                        ELSE /\ call' = [call EXCEPT ![o] =
                                           Threw(rec, "Authentication rejected by ClearNode")]
                             /\ UNCHANGED client
                   /\ UNCHANGED lastResult
              [] frame.method = "create_app_session" ->
                   /\ client' = [client EXCEPT
                                   !.appSessionId = frame.app_session_id,
                                   !.stateVersion = IF frame.hasVersion
                                                      THEN frame.version ELSE 0]
                   /\ call' = [call EXCEPT ![o] = Returned(rec)]
                   \* the relay names the new session by an id of its own
                   /\ lastResult' = NoResult
              [] frame.method = "submit_app_state" ->
                   /\ client' = [client EXCEPT
                                   !.userBalance = rec.newUserBalance,
                                   !.agentBalance = rec.newAgentBalance,
                                   !.stateVersion = IF frame.hasVersion
                                                      THEN frame.version
                                                      ELSE client.stateVersion + 1]
                   /\ call' = [call EXCEPT ![o] = Returned(rec)]
                   \* return { queryId, amount, instant, appSessionId, version }
                   /\ lastResult' = [issued |-> TRUE, version |-> client'.stateVersion]
              [] frame.method = "close_app_session" ->
                   /\ client' = [client EXCEPT !.appSessionId = NULL]
                   /\ call' = [call EXCEPT ![o] = Returned(rec)]
                   /\ lastResult' = NoResult

\* clearTimeout(pending.timeout); pendingRequests.delete(key); pending.reject(..)
Abort(pending) ==
    /\ timer' = [timer EXCEPT ![pending.owner] = NULL]
    /\ pendingRequests' = MapDelete(pendingRequests, pending.method)
    /\ call' = [call EXCEPT ![pending.owner] = Rejected(@, "relay error")]
    /\ UNCHANGED <<client, lastResult>>

\* mutant: the entry registered last is taken
FirstPending_last(pr) == pr[Len(pr)]

\* pendingRequests.entries().next().value
FirstPending(pr) == pr[1]

\* handleMessage(raw) for a frame of the given method
handleMessage(frame) ==
    IF HasKey(pendingRequests, frame.method)
      THEN IF frame.method = "error"
             THEN Abort([method |-> frame.method,
                         owner |-> MapGet(pendingRequests, frame.method)])
             ELSE Resolved(MapGet(pendingRequests, frame.method), frame)
    ELSE IF frame.method = "error" /\ Len(pendingRequests) > 0
      THEN Abort(FirstPending(pendingRequests))
      ELSE UNCHANGED <<client, pendingRequests, call, timer, lastResult>>

\* ws.onmessage: the relay answers a request it received on socket s
RelayAnswers(s, request, frame) ==
    /\ readyState[s] = "OPEN"
    /\ request \in outbox[s]
    /\ frame \in Frames(s, request)
    /\ outbox' = [outbox EXCEPT ![s] = @ \ {request}]
    /\ handleMessage(frame)
    /\ UNCHANGED <<readyState, connectTimeout, deposit, depositVars, pipelineVars>>

\* the timer of waitForRawResponse fires for the wait caller c registered
WaitTimeout(c) ==
    /\ timer[c] # NULL
    /\ pendingRequests' = MapDelete(pendingRequests, timer[c])
    /\ timer' = [timer EXCEPT ![c] = NULL]
    /\ call' = [call EXCEPT ![c] = Rejected(@, "Timeout")]
    /\ UNCHANGED <<client, readyState, connectTimeout, outbox, deposit, lastResult,
                   depositVars,
                   pipelineVars>>

\* mutant: disconnect() rejects the first pending request only
Doomed_first(pr) == IF pr = <<>> THEN {} ELSE {pr[1].owner}

\* disconnect(): the owners of the entries its loop rejects
Doomed(pr) == Owners(pr)

\* disconnect()
Disconnect ==
    /\ readyState' = Closed(readyState, client.ws)
    /\ client' = [stopPingLoop(client) EXCEPT
                    !.ws = NoSocket, !.connected = FALSE, !.authenticated = FALSE,
                    !.appSessionId = NULL, !.userBalance = 0, !.agentBalance = 0,
                    !.stateVersion = 0]
    /\ timer' = [c \in Callers |-> IF c \in Doomed(pendingRequests) THEN NULL ELSE timer[c]]
    /\ call' = [c \in Callers |->
                  IF c \in Doomed(pendingRequests) THEN Rejected(call[c], "Disconnected")
                  ELSE call[c]]
    /\ pendingRequests' = SelectSeq(pendingRequests,
                                    LAMBDA e : e.owner \notin Doomed(pendingRequests))
    /\ lastResult' = NoResult
    /\ UNCHANGED <<connectTimeout, outbox, deposit, depositVars, pipelineVars>>

\* the deposits a caller opens a session with
Deposits == {MaxDeposit}

\* the connections over which overlapping calls are explored
OverlapSockets == {1}

\* no method of the client is in progress
Quiet == \A c \in Callers : call[c].pc \in {"idle", "returned", "threw"}

\* a step of the client, its callers, its timers or the relay; serial is the
\* callers' discipline of starting a method only when none is in progress,
\* amounts the amounts they pass to sendMicropayment, sockets the connections
\* they open
ClientStepWith(serial, amounts, sockets) ==
    \/ \E c \in Callers, s \in sockets :
          /\ serial => Quiet
          /\ Connect(c, s)
    \/ \E s \in Sockets : SocketOpen(s)
    \/ \E c \in Callers : AuthRequestBuilt(c)
    \/ \E c \in Callers, signed \in BOOLEAN : AuthSigned(c, signed)
    \/ \E s \in Sockets : ConnectTimeout(s)
    \/ \E s \in Sockets : SocketFails(s)
    \/ \E s \in Sockets : TransportClose(s)
    \/ \E c \in Callers, d \in Deposits :
          (serial => Quiet) /\ CreatePaymentSession(c, d)
    \/ \E c \in Callers : CreateSigned(c)
    \/ \E c \in Callers, a \in amounts :
          /\ serial => Quiet
          /\ client.stateVersion < MaxStateVersion
          /\ client.userBalance - a <= MaxBalance
          /\ SendMicropayment(c, a)
    \/ \E c \in Callers : SendSigned(c)
    \/ \E c \in Callers : (serial => Quiet) /\ CloseSession(c)
    \/ \E c \in Callers : CloseSigned(c)
    \/ \E s \in Sockets : \E request \in outbox[s] : \E frame \in Frames(s, request) :
          RelayAnswers(s, request, frame)
    \/ \E c \in Callers : WaitTimeout(c)
    \/ Disconnect

ClientStep(serial) ==
    ClientStepWith(serial, MicroAmounts, IF serial THEN Sockets ELSE OverlapSockets)

\* callers that serialize their calls, as the client's contract asks
NextClient == ClientStep(TRUE)

SpecClient == Init /\ [][NextClient]_vars

\* callers that overlap their calls
NextOverlap == ClientStep(FALSE)

SpecOverlap == Init /\ [][NextOverlap]_vars

\* amounts of either sign and zero: BigInt(amount) accepts them all
SignedAmounts == {-1, 0, 1}

\* serialized callers that pass amounts of either sign, on one connection
NextSigned == ClientStepWith(TRUE, SignedAmounts, OverlapSockets)

SpecSigned == Init /\ [][NextSigned]_vars

(* ------------- MicropaymentSettlementHook / ArcSettlementHook ---------- *)
\* A transaction runs on a copy of the contract's storage and of the token's
\* balances; a revert (error # "") throws the copy away.
outsideHook == <<ledgerVars, settlementInProgress, inv, queryVars, dbVars, nRecorded,
                 sinceReset, clientVars>>

balanceOf ==
    [a \in Accounts \cup {HOOK} |->
        IF a = AGENT THEN agentBalance
        ELSE IF a = HOOK THEN hookBalance
        ELSE payerFunds[a]]

Revert(h, err) == IF h.error = "" THEN [h EXCEPT !.error = err] ELSE h

Storage ==
    [accumulatedBalance |-> accumulatedBalance,
     settlementThreshold |-> settlementThreshold,
     authorizedPayers |-> authorizedPayers,
     settlementCount |-> settlementCount,
     totalSettled |-> totalSettled,
     balanceOf |-> balanceOf,
     error |-> "",
     \* ReentrancyGuard: _status is ENTERED
     entered |-> FALSE,
     \* the call the token will make back into the hook during its next
     \* transfer, and the one it has made
     callback |-> NoCall,
     nested |-> NoNested]

\* modifier nonReentrant
nonReentrantBefore(h) ==
    IF h.entered THEN Revert(h, "ReentrancyGuardReentrantCall")
    ELSE [h EXCEPT !.entered = TRUE]

nonReentrantAfter(h) == IF h.error # "" THEN h ELSE [h EXCEPT !.entered = FALSE]

RECURSIVE safeTransfer(_, _, _, _)

\* mutant: a transfer the token refuses goes unnoticed (plain transfer, result
\* not checked)
safeTransfer_unchecked(h, from, to, amount) ==
    IF h.error # "" \/ h.balanceOf[from] < amount THEN h
    ELSE [h EXCEPT !.balanceOf =
            [a \in DOMAIN h.balanceOf |->
                h.balanceOf[a] - (IF a = from THEN amount ELSE 0)
                               + (IF a = to THEN amount ELSE 0)]]

\* mutant: the settlement is not counted
settle_uncounted(h) ==
    IF h.error # "" THEN h
    ELSE LET amount == h.accumulatedBalance
             h1 == [h EXCEPT !.accumulatedBalance = 0, !.totalSettled = @ + amount]
         IN  safeTransfer(h1, HOOK, AGENT, amount)

settle(h) ==
    IF h.error # "" THEN h
    ELSE LET amount == h.accumulatedBalance
             h1 == [h EXCEPT !.accumulatedBalance = 0,
                             !.settlementCount = @ + 1,
                             !.totalSettled = @ + amount]
         IN  safeTransfer(h1, HOOK, AGENT, amount)

\* mutant: the authorization check is dropped
Authorized_anyone(h, sender) == TRUE

Authorized(h, sender) == sender \in h.authorizedPayers

\* mutant: a balance equal to the threshold does not settle
ThresholdReached_strict(h, newBalance) == newBalance > h.settlementThreshold

ThresholdReached(h, newBalance) == newBalance >= h.settlementThreshold

depositMicropayment(h0, sender, amount) ==
    LET h == nonReentrantBefore(h0)
    IN  nonReentrantAfter(
          IF h.error # "" THEN h
          ELSE IF ~Authorized(h, sender) THEN Revert(h, "PayerNotAuthorized")
          ELSE IF amount < MIN_DEPOSIT THEN Revert(h, "AmountTooSmall")
          ELSE LET newBalance == h.accumulatedBalance + amount
                   h1 == [h EXCEPT !.accumulatedBalance = newBalance]
                   h2 == safeTransfer(h1, sender, HOOK, amount)
               IN  IF ThresholdReached(h2, newBalance) THEN settle(h2) ELSE h2)

settleNow(h0, sender) ==
    LET h == nonReentrantBefore(h0)
    IN  nonReentrantAfter(
          IF h.error # "" THEN h
          ELSE IF sender # AGENT THEN Revert(h, "OnlyAgentCanSettle")
          ELSE IF h.accumulatedBalance > 0 THEN settle(h) ELSE h)

\* mutant: the transfer is attempted whatever the hook holds
ReserveCovers_always(h, amount) == TRUE

\* IERC20(usdc).balanceOf(address(this)) >= amount
ReserveCovers(h, amount) == h.balanceOf[HOOK] >= amount

recordSettlementTx(h0, sender, amount) ==
    LET h == nonReentrantBefore(h0)
    IN  nonReentrantAfter(
          IF h.error # "" THEN h
          ELSE IF sender # AGENT THEN Revert(h, "OnlyAgentCanSettle")
          ELSE IF RecordSettlementReverts(amount) THEN Revert(h, "AmountTooSmall")
          ELSE LET h1 == [h EXCEPT !.settlementCount = @ + 1,
                                   !.totalSettled = @ + amount]
               IN  IF ReserveCovers(h1, amount)
                     THEN safeTransfer(h1, HOOK, AGENT, amount)
                     ELSE h1)

\* mutant: the management right goes with the payer authorization
onlyAgent_authorized(h, sender) == sender \in h.authorizedPayers

\* modifier onlyAgent: msg.sender is the immutable agentWallet
onlyAgent(h, sender) == sender = AGENT

\* mutant: no floor
ThresholdTooLow_never(newThreshold) == FALSE

ThresholdTooLow(newThreshold) == newThreshold < MIN_THRESHOLD

\* mutant: a balance equal to the new threshold is left standing
BalanceReaches_strict(h, newThreshold) == h.accumulatedBalance > newThreshold

BalanceReaches(h, newThreshold) == h.accumulatedBalance >= newThreshold

setSettlementThreshold(h, sender, newThreshold) ==
    IF ~onlyAgent(h, sender) THEN Revert(h, "OnlyAgentCanManage")
    ELSE IF ThresholdTooLow(newThreshold) THEN Revert(h, "ThresholdTooLow")
    ELSE LET h1 == [h EXCEPT !.settlementThreshold = newThreshold]
         IN  IF BalanceReaches(h1, newThreshold) THEN settle(h1) ELSE h1

\* mutant: an authorized address is authorized again without complaint
AlreadyAuthorized_never(h, payer) == FALSE

AlreadyAuthorized(h, payer) == payer \in h.authorizedPayers

authorizePayer(h, sender, payer) ==
    IF ~onlyAgent(h, sender) THEN Revert(h, "OnlyAgentCanManage")
    ELSE IF payer = ZERO_ADDRESS THEN Revert(h, "InvalidAgentWallet")
    ELSE IF AlreadyAuthorized(h, payer) THEN Revert(h, "PayerAlreadyAuthorized")
    ELSE [h EXCEPT !.authorizedPayers = @ \cup {payer}]

revokePayer(h, sender, payer) ==
    IF ~onlyAgent(h, sender) THEN Revert(h, "OnlyAgentCanManage")
    ELSE IF payer \notin h.authorizedPayers THEN Revert(h, "PayerNotFound")
    ELSE [h EXCEPT !.authorizedPayers = @ \ {payer}]

\* an external call c into the hook
Entry(h, c) ==
    CASE c.fn = "depositMicropayment" -> depositMicropayment(h, c.sender, c.amount)
      [] c.fn = "settleNow" -> settleNow(h, c.sender)
      [] c.fn = "recordSettlement" -> recordSettlementTx(h, c.sender, c.amount)
      [] c.fn = "setSettlementThreshold" -> setSettlementThreshold(h, c.sender, c.amount)
      [] c.fn = "authorizePayer" -> authorizePayer(h, c.sender, c.payer)
      [] c.fn = "revokePayer" -> revokePayer(h, c.sender, c.payer)

\* the token, in the middle of a transfer, makes the call h.callback into the
\* hook and goes on whether or not that call reverts; a call that reverts
\* leaves nothing behind
Callback(h) ==
    IF h.callback = NoCall THEN h
    ELSE LET c == h.callback
             before == [h EXCEPT !.callback = NoCall]
             after == Entry(before, c)
         IN  IF after.error # ""
               THEN [before EXCEPT !.nested = [call |-> c, error |-> after.error]]
               ELSE [after EXCEPT !.nested = [call |-> c, error |-> ""]]

\* SafeERC20.safeTransfer / safeTransferFrom on a token that reverts when the
\* sender's balance does not cover the amount (allowances are unlimited);
\* USDC makes no call during a transfer (callback = NoCall), a token with
\* transfer hooks hands control to the sender or the recipient
safeTransfer(h, from, to, amount) ==
    IF h.error # "" THEN h
    ELSE IF h.balanceOf[from] < amount THEN Revert(h, "ERC20InsufficientBalance")
    ELSE Callback([h EXCEPT !.balanceOf =
            [a \in DOMAIN h.balanceOf |->
                h.balanceOf[a] - (IF a = from THEN amount ELSE 0)
                               + (IF a = to THEN amount ELSE 0)]])

\* the transaction is mined: its effects are stored, or none of them when it
\* reverted
Mined(fn, sender, amount, payer, h) ==
    /\ tx' = [fn |-> fn, sender |-> sender, amount |-> amount, payer |-> payer,
              error |-> h.error, n |-> tx.n + 1,
              nested |-> IF h.error # "" THEN NoNested ELSE h.nested]
    /\ IF h.error # ""
         THEN UNCHANGED <<accumulatedBalance, settlementThreshold, authorizedPayers,
                          payerFunds, chainVars>>
         ELSE /\ accumulatedBalance' = h.accumulatedBalance
              /\ settlementThreshold' = h.settlementThreshold
              /\ authorizedPayers' = h.authorizedPayers
              /\ settlementCount' = h.settlementCount
              /\ totalSettled' = h.totalSettled
              /\ hookBalance' = h.balanceOf[HOOK]
              /\ agentBalance' = h.balanceOf[AGENT]
              /\ payerFunds' = [a \in DOMAIN payerFunds |-> h.balanceOf[a]]
    /\ UNCHANGED outsideHook

\* amounts a depositor sends: nothing, one unit under the minimum, the minimum,
\* one unit under the lowest threshold and that threshold
DepositAmounts == {0, MIN_DEPOSIT - 1, MIN_DEPOSIT, MIN_THRESHOLD - 1, MIN_THRESHOLD}
\* amounts the agent records: one unit under the minimum, an amount the reserve
\* covers, and one that the reserve covers only together with a minimal deposit
RecordAmounts == {MIN_DEPOSIT - 1, MIN_THRESHOLD, HookReserve + MIN_DEPOSIT}
Thresholds == {MIN_THRESHOLD - 1, MIN_THRESHOLD, DEFAULT_SETTLEMENT_THRESHOLD}
Payers == {"payer", AGENT, ZERO_ADDRESS}

\* the calls a token with transfer hooks makes back into the hook: each
\* function, from the agent wallet and from the payer
Callbacks ==
    {[fn |-> f, sender |-> a, amount |-> MIN_THRESHOLD, payer |-> "payer"] :
        f \in {"depositMicropayment", "settleNow", "recordSettlement",
               "setSettlementThreshold", "authorizePayer", "revokePayer"},
        a \in {AGENT, "payer"}}

\* the storage a transaction starts from, with the token about to call back
StorageWith(callback) == [Storage EXCEPT !.callback = callback]

DepositMicropayment(sender, amount, callback) ==
    /\ tx.n < MaxTxs
    /\ Mined("depositMicropayment", sender, amount, "",
             depositMicropayment(StorageWith(callback), sender, amount))

SettleNow(sender, callback) ==
    /\ tx.n < MaxTxs
    /\ Mined("settleNow", sender, 0, "", settleNow(StorageWith(callback), sender))

RecordSettlementTx(sender, amount, callback) ==
    /\ tx.n < MaxTxs
    /\ Mined("recordSettlement", sender, amount, "",
             recordSettlementTx(StorageWith(callback), sender, amount))

SetSettlementThreshold(sender, newThreshold, callback) ==
    /\ tx.n < MaxTxs
    /\ Mined("setSettlementThreshold", sender, newThreshold, "",
             setSettlementThreshold(StorageWith(callback), sender, newThreshold))

AuthorizePayer(sender, payer) ==
    /\ tx.n < MaxTxs
    /\ Mined("authorizePayer", sender, 0, payer, authorizePayer(Storage, sender, payer))

RevokePayer(sender, payer) ==
    /\ tx.n < MaxTxs
    /\ Mined("revokePayer", sender, 0, payer, revokePayer(Storage, sender, payer))

\* a transaction sent to the hook; callbacks are the calls its token can make
\* back into the hook during a transfer
HookStep(callbacks) ==
    \/ \E sender \in Accounts, amount \in DepositAmounts, callback \in callbacks :
          DepositMicropayment(sender, amount, callback)
    \/ \E sender \in Accounts, callback \in callbacks : SettleNow(sender, callback)
    \/ \E sender \in Accounts, amount \in RecordAmounts, callback \in callbacks :
          RecordSettlementTx(sender, amount, callback)
    \/ \E sender \in Accounts, t \in Thresholds, callback \in callbacks :
          SetSettlementThreshold(sender, t, callback)
    \/ \E sender \in Accounts, payer \in Payers : AuthorizePayer(sender, payer)
    \/ \E sender \in Accounts, payer \in Payers : RevokePayer(sender, payer)

\* the hook over USDC, which makes no call during a transfer
NextHook == HookStep({NoCall})

SpecHook == Init /\ [][NextHook]_vars

\* the hook over a token with transfer hooks
NextReentry == HookStep(Callbacks \cup {NoCall})

SpecReentry == Init /\ [][NextReentry]_vars

FairSpec ==
    /\ Spec
    /\ \A i \in Invocations :
          /\ WF_vars(\E out \in {"hash", "lost", "timeout", "nonce", "revert"} :
                        PrimaryResponse(i, out))
          /\ WF_vars(BackoffElapsed(i))

(* =============================== claims ================================ *)
InProtected(i) == inv[i].pc \in {"primary", "backoff", "arc"}

Ended(i) == inv[i].pc \in {"returned", "threw"}

InProgressError == "Settlement already in progress"

\* the errors withRetry can surface
RetryErrors == {"RpcTimeout", "NonceRace", "AmountTooSmall"}

\* C1: single-flight. At most one invocation is between lock acquisition and
\* release; a trigger called while another invocation is in progress throws
\* 'Settlement already in progress' in the same step, has made no on-chain
\* call, leaves ledger and chain untouched and never runs later (not queued).
C1_SingleFlight ==
    /\ [](/\ Cardinality({i \in Invocations : InProtected(i)}) <= 1
          /\ settlementInProgress <=> \E i \in Invocations : InProtected(i)
          /\ \A i \in Invocations :
                inv[i].error = InProgressError =>
                    /\ inv[i].pc = "threw"
                    /\ inv[i].attempt = 0 /\ inv[i].onChain = 0
                    /\ inv[i].txHash = NULL /\ inv[i].settled = <<>>)
    /\ [][\A i \in Invocations :
            /\ (inv[i].pc = "idle" /\ inv'[i].pc # "idle"
                  /\ \E j \in Invocations : InProtected(j))
               => /\ inv'[i].error = InProgressError
                  /\ UNCHANGED <<ledgerVars, chainVars, settlementInProgress>>
            /\ inv[i].error = InProgressError => inv'[i] = inv[i]]_vars

C1_Witness ==
    \E i, j \in Invocations :
        /\ inv[i].error = InProgressError
        /\ InProtected(j)

\* C2: the amount resetAfterSettlement removes from the ledger equals the
\* amount submitted on-chain by the same invocation.
C2_ResetEqualsSubmitted ==
    \A i \in Invocations :
        inv[i].settled # <<>> => inv[i].settled[1].amount = inv[i].accumulated

\* how many rows of ps carry query id q
Occurrences(ps, q) == Cardinality({k \in 1..Len(ps) : ps[k].queryId = q})

\* C3: resetAfterSettlement is atomic with respect to recordPayment: every
\* recorded payment is in exactly one returned snapshot or still in the
\* ledger, never lost and never in two snapshots.
C3_ResetAtomic ==
    \A n \in 1..nRecorded :
        LET q == QueryIdOf(n)
            inSnapshots == {c \in ResetCalls :
                              dbReset[c].pc = "returned" /\ Occurrences(dbReset[c].rows, q) > 0}
        IN Cardinality(inSnapshots) + Occurrences(paymentsTable, q) = 1

\* C4: the accumulated total equals the sum of the amounts of the payment
\* records held, which equals the sum of the amounts recorded since the last
\* reset (zero right after a reset).
C4_AccumulatedIsSum ==
    /\ getAccumulated = SumAmounts(getPayments)
    /\ getAccumulated = sinceReset
    /\ getPayments = <<>> => getAccumulated = 0

C4_Witness ==
    /\ lastSettlementTime # NULL
    /\ Len(payments) = 1
    /\ accumulatedAmount = payments[1].amount

\* C5: the ledger is reset only by an invocation whose primary call returned
\* a hash; an invocation whose primary call failed on every attempt ends
\* with an error without having changed the accumulated total, the payment
\* list or the history, so the value is there for the next attempt.
C5_ResetOnlyAfterPrimary ==
    /\ [](\A i \in Invocations :
            (Ended(i) /\ inv[i].error \in RetryErrors) =>
                /\ inv[i].txHash = NULL
                /\ inv[i].settled = <<>> /\ inv[i].result = <<>>)
    /\ [][/\ \A i \in Invocations :
               (inv[i].pc = "primary" /\ Ended(i)') => UNCHANGED ledgerVars
          /\ (\/ Len(payments') < Len(payments)
              \/ accumulatedAmount' < accumulatedAmount
              \/ lastSettlementTime' # lastSettlementTime
              \/ settlementHistory' # settlementHistory)
             => \E i \in Invocations :
                   /\ inv[i].pc = "arc" /\ inv[i].txHash # NULL
                   /\ inv'[i].pc = "returned"]_vars

\* a failed invocation is followed by one that submits the same total
C5_Witness ==
    \E i, j \in Invocations :
        /\ Ended(i) /\ inv[i].error \in RetryErrors
        /\ inv[j].pc = "primary"
        /\ inv[j].accumulated = inv[i].accumulated
        /\ accumulatedAmount = inv[i].accumulated

\* C6: the on-chain call is idempotent per batch: whatever withRetry does, the
\* recordSettlement of one invocation takes effect on-chain at most once.
C6_AtMostOncePerBatch ==
    \A i \in Invocations : inv[i].onChain <= 1

\* C7: replay protection. Per session id the accepted proof versions are
\* strictly increasing in the order of acceptance, so no (session id,
\* version) is accepted twice, by one request or by two concurrent ones; a
\* request whose proof version is at most the last accepted version of its
\* session is answered 402 and is not accepted.
C7_ReplayProtection ==
    /\ [](\A sid \in SessionIds :
            /\ \A a, b \in 1..Len(accepted[sid]) :
                  a < b => accepted[sid][a] < accepted[sid][b]
            /\ sessionVersions[sid] =
                  IF accepted[sid] = <<>> THEN 0
                  ELSE accepted[sid][Len(accepted[sid])])
    /\ [][\A r \in Requests :
            /\ (req[r].pc = "parsing" /\ req'[r].pc = "agent")
               => \E sid \in SessionIds :
                     /\ accepted'[sid] # accepted[sid]
                     /\ accepted'[sid][Len(accepted'[sid])] > sessionVersions[sid]
            /\ (req[r].pc = "parsing" /\ req'[r].payment # NoPayment)
               => /\ req'[r].payment.version
                       <= sessionVersions[req'[r].payment.appSessionId]
                  /\ req'[r].pc = "responded" /\ req'[r].status = 402
                  /\ UNCHANGED <<sessionVersions, accepted>>]_vars

\* version 1 accepted, version 1 replayed and answered 402, version 2 accepted
C7_Witness ==
    /\ accepted["s1"] = <<1, 2>>
    /\ req[2].status = 402
    /\ req[2].payment = [appSessionId |-> "s1", version |-> 1]

\* C8: withRetry makes at most MAX_RETRIES attempts, stops at the first
\* success, waits base * 2^(k-1) after failed attempt k < MAX_RETRIES and not
\* after the last, throws the error of the last attempt when all fail, and
\* always terminates.
C8_WithRetry ==
    /\ [](\A i \in Invocations :
            /\ inv[i].attempt <= MAX_RETRIES
            /\ inv[i].waited =
                 [k \in 1..Len(inv[i].waited) |-> RETRY_BASE_DELAY_MS * Pow2(k - 1)]
            /\ Len(inv[i].waited) =
                 IF inv[i].pc = "backoff" THEN inv[i].attempt
                 ELSE IF inv[i].attempt = 0 THEN 0 ELSE inv[i].attempt - 1
            /\ inv[i].txHash # NULL =>
                 /\ inv[i].pc \in {"arc", "returned"}
                 /\ inv[i].response = "hash"
            /\ (Ended(i) /\ inv[i].error \in RetryErrors) =>
                 /\ inv[i].attempt = MAX_RETRIES
                 /\ inv[i].error = ErrorOf(inv[i].response))
    /\ [][\A i \in Invocations :
            inv[i].txHash # NULL => inv'[i].attempt = inv[i].attempt]_vars
    /\ \A i \in Invocations :
          (inv[i].pc \in {"primary", "backoff"}) ~> (inv[i].pc \in {"arc", "returned", "threw"})

C8_Witness ==
    \E i \in Invocations :
        /\ inv[i].pc = "threw"
        /\ inv[i].attempt = MAX_RETRIES
        /\ inv[i].waited = <<RETRY_BASE_DELAY_MS, 2 * RETRY_BASE_DELAY_MS>>
        /\ inv[i].error = "NonceRace"

\* C9: a call the contract rejects is attempted exactly once: no attempt
\* follows a revert.
C9_RevertNotRetried ==
    \A i \in Invocations :
        inv[i].lastError = "AmountTooSmall" => inv[i].attempt = 1

\* C10: once the primary call has succeeded the invocation ends with the
\* ledger reset and one record appended to the history whatever the secondary
\* call did, and the record's chains are the primary, plus the secondary
\* exactly when settleOnArc returned a transaction hash.
C10_SecondaryBestEffort ==
    /\ [](\A i \in Invocations :
            (Ended(i) /\ inv[i].txHash # NULL) =>
                /\ inv[i].error = NULL
                /\ inv[i].settled # <<>> /\ inv[i].result # <<>>
                /\ \E k \in 1..Len(settlementHistory) :
                      settlementHistory[k] = inv[i].result[1]
                /\ inv[i].result[1].chains =
                     IF inv[i].arcTxHash = "0xarc"
                       THEN <<"base-sepolia", "arc-testnet">>
                       ELSE <<"base-sepolia">>)
    /\ [][\A i \in Invocations :
            (inv[i].pc = "arc" /\ inv'[i].pc # "arc") =>
                /\ accumulatedAmount' = 0 /\ payments' = <<>>
                /\ Len(settlementHistory') = Len(settlementHistory) + 1
                /\ inv'[i].pc = "returned"]_vars

C10_Witness ==
    \E i \in Invocations :
        /\ inv[i].pc = "returned"
        /\ inv[i].txHash # NULL /\ inv[i].arcTxHash = NULL
        /\ inv[i].result # <<>>
        /\ inv[i].result[1].chains = <<"base-sepolia">>
        /\ payments = <<>>

\* true when caller c holds the outcome of a call of method op that threw err
ThrewError(c, op, err) == call[c].op = op /\ call[c].pc = "threw" /\ call[c].error = err

\* a session is active as sendMicropayment sees it
ActiveSession ==
    client.ws # NoSocket /\ client.signers /\ client.appSessionId # NULL

\* C11: sendMicropayment with an amount greater than userBalance, on an active
\* session, throws the insufficient-balance error before anything is registered
\* or sent and leaves userBalance, agentBalance and stateVersion as they were;
\* userBalance is never below zero.
C11_InsufficientBalance ==
    /\ [](client.userBalance >= 0)
    /\ [][\A c \in Callers, a \in MicroAmounts :
            (ActiveSession /\ a > client.userBalance /\ SendMicropayment(c, a)) =>
                /\ ThrewError(c, "sendMicropayment", "Insufficient balance")'
                /\ UNCHANGED <<client, pendingRequests, timer, outbox>>]_vars

C11_Witness ==
    /\ \E c \in Callers : ThrewError(c, "sendMicropayment", "Insufficient balance")
    /\ ActiveSession
    /\ client.userBalance = 0 /\ client.agentBalance = deposit /\ deposit > 0

\* the allocation-carrying requests handed to the relay in this step
SentNow(s) == {msg \in outbox'[s] \ outbox[s] :
                 msg.method \in {"submit_app_state", "close_app_session"}}

\* C12: while a session exists, userBalance + agentBalance equals the initial
\* deposit of the session, whatever payments succeeded or failed, and the
\* allocations of every state update and every close request sent sum to it.
C12_BalanceConserved ==
    /\ [](client.appSessionId # NULL =>
             client.userBalance + client.agentBalance = deposit)
    /\ [][\A s \in Sockets : \A msg \in SentNow(s) :
            msg.user + msg.agent = deposit]_vars

C12_Witness ==
    /\ client.appSessionId # NULL
    /\ client.agentBalance > 0 /\ client.userBalance > 0
    /\ \E c \in Callers : ThrewError(c, "sendMicropayment", "Timeout")
    /\ \E s \in Sockets : \E msg \in outbox[s] :
          msg.method = "close_app_session" /\ msg.agent > 0

DisconnectedState ==
    /\ client = [NewClient EXCEPT !.signers = client.signers]
    /\ pendingRequests = <<>>

\* C14: disconnect() ends in the disconnected state from every client state,
\* and in the disconnected state it changes nothing.
C14_DisconnectIdempotent ==
    [][Disconnect =>
         /\ DisconnectedState'
         /\ DisconnectedState => UNCHANGED clientVars]_vars

C14_Witness ==
    /\ DisconnectedState
    /\ client.signers
    /\ readyState[1] = "CLOSING"
    /\ \E c \in Callers : ThrewError(c, "sendMicropayment", "Disconnected")

\* C15: when the transport closes, the handler of the close event leaves the
\* client not connected and not authenticated and rejects every request that
\* is pending at that moment: the pending table is empty after it and no
\* caller is left waiting on an entry of it.
C15_CloseRejectsPending ==
    [][\A s \in Sockets :
         TransportClose(s) =>
            /\ ~client'.connected /\ ~client'.authenticated
            /\ pendingRequests' = <<>>
            /\ \A k \in 1..Len(pendingRequests) :
                  call'[pendingRequests[k].owner].pc # "waiting"]_vars

\* C16: a session id exists only while the transport of the client is up: once
\* the transport has closed (as after closeSession and after disconnect) the
\* session id is cleared, so that sendMicropayment fails with 'No active
\* session'.
C16_NoSessionAfterClose ==
    Transport = "CLOSED" => client.appSessionId = NULL

AuthRejected == "Authentication rejected by ClearNode"

\* caller c is in connect(), awaiting the response to the auth_verify message
\* it sent after the socket opened, the auth request went out, the challenge
\* came back and the wallet signed it
AwaitsVerify(c) ==
    call[c].op = "connect" /\ call[c].pc = "waiting" /\ call[c].wait = "auth_verify"

\* C17: authenticated (and the keepalive loop) turns on only in the step in
\* which a connect() that has gone through the whole handshake receives an
\* auth_verify response; on a negative verify result connect() throws the
\* authentication-rejected error, authenticated stays false and the keepalive
\* loop is not started; createPaymentSession throws, without touching the
\* session state or sending, while the client is not authenticated.
C17_AuthHandshake ==
    /\ [][(client'.authenticated /\ ~client.authenticated)
            \/ (client'.pingInterval /\ ~client.pingInterval) =>
              /\ \E c \in Callers : AwaitsVerify(c) /\ call'[c].pc = "returned"
              /\ client'.authenticated /\ client'.pingInterval]_vars
    /\ [][\A s \in Sockets : \A request \in outbox[s] : \A frame \in Frames(s, request) :
            \A c \in Callers :
              (/\ RelayAnswers(s, request, frame)
               /\ frame.method = "auth_verify" /\ ~frame.success
               /\ AwaitsVerify(c) /\ HasKey(pendingRequests, "auth_verify")
               /\ MapGet(pendingRequests, "auth_verify") = c) =>
                  /\ call'[c].pc = "threw" /\ call'[c].error = AuthRejected
                  /\ ~client'.authenticated /\ ~client'.pingInterval]_vars
    /\ [][\A c \in Callers, d \in Deposits :
            (~client.authenticated /\ CreatePaymentSession(c, d)) =>
                /\ call'[c].pc = "threw"
                /\ call'[c].error = "Not connected or not authenticated"
                /\ UNCHANGED <<client, pendingRequests, timer, outbox>>]_vars

C17_Witness ==
    /\ \E c \in Callers : ThrewError(c, "connect", AuthRejected)
    /\ Transport = "OPEN"
    /\ ~client.authenticated /\ ~client.pingInterval

\* C18: closeSession never throws: a relay error frame, a timeout or a
\* disconnect while it waits for the acknowledgement is swallowed.
C18_CloseNeverThrows ==
    \A c \in Callers : call[c].op = "closeSession" => call[c].pc # "threw"

(* ------------------- claims about the hook's deposits ------------------ *)
\* the step is a mined depositMicropayment transaction
DepositStep == tx'.n = tx.n + 1 /\ tx'.fn = "depositMicropayment"

\* nothing the contract stores and no token balance changes in the step
HookUntouched ==
    UNCHANGED <<accumulatedBalance, settlementThreshold, authorizedPayers, payerFunds,
                settlementCount, totalSettled, hookBalance, agentBalance>>

\* C19: depositMicropayment succeeds only for an authorized payer and an amount
\* of at least MIN_DEPOSIT, and neither check rejects an authorized deposit of
\* exactly MIN_DEPOSIT; an unauthorized sender reverts with PayerNotAuthorized,
\* an authorized sender with a smaller amount (0 included) reverts with
\* AmountTooSmall, and both leave accumulatedBalance, the counters and every
\* token balance unchanged.
C19_DepositChecks ==
    [][DepositStep =>
        LET wasAuthorized == tx'.sender \in authorizedPayers
        IN  /\ ~wasAuthorized => tx'.error = "PayerNotAuthorized"
            /\ (wasAuthorized /\ tx'.amount < MIN_DEPOSIT) => tx'.error = "AmountTooSmall"
            /\ (wasAuthorized /\ tx'.amount >= MIN_DEPOSIT) =>
                   tx'.error \notin {"PayerNotAuthorized", "AmountTooSmall"}
            /\ tx'.error = "" => wasAuthorized /\ tx'.amount >= MIN_DEPOSIT
            /\ tx'.error \in {"PayerNotAuthorized", "AmountTooSmall"} => HookUntouched
      ]_vars

\* a payer that deposited and was then revoked is turned away, the balance it
\* paid in still accumulated
C19_Witness ==
    /\ tx.fn = "depositMicropayment" /\ tx.sender = "payer"
    /\ tx.error = "PayerNotAuthorized"
    /\ accumulatedBalance = MIN_DEPOSIT
    /\ payerFunds["payer"] = PayerFunds - MIN_DEPOSIT

\* what the contract transferred to the agent wallet in the step: the change
\* of the wallet's balance, plus the amount the wallet paid in when it is the
\* depositor itself
TransferredToAgent ==
    agentBalance' - agentBalance + (IF tx'.sender = AGENT THEN tx'.amount ELSE 0)

\* C20 as stated: a successful deposit that brings the balance to the threshold
\* or over ends with accumulatedBalance = 0 and the agent wallet's token balance
\* higher by b + a; one that stays below ends with accumulatedBalance = b + a and
\* the agent wallet's balance no higher than before.
C20_AgentBalanceGrowsByWhole ==
    [][(DepositStep /\ tx'.error = "") =>
        LET b == accumulatedBalance
            a == tx'.amount
        IN  IF b + a >= settlementThreshold
              THEN accumulatedBalance' = 0 /\ agentBalance' = agentBalance + b + a
              ELSE accumulatedBalance' = b + a /\ agentBalance' <= agentBalance
      ]_vars

\* C20 as amended: a successful deposit that brings the balance to the
\* threshold or over (exactly the threshold included) ends with
\* accumulatedBalance = 0 and the contract having transferred b + a to the agent
\* wallet in one settlement, so the wallet's balance is higher by b + a when
\* another account deposited and by b when the wallet itself did; one that
\* stays below (one unit below included) ends with accumulatedBalance = b + a and
\* nothing transferred to the agent.
C20_DepositSettlesWhole ==
    [][(DepositStep /\ tx'.error = "") =>
        LET b == accumulatedBalance
            a == tx'.amount
        IN  IF b + a >= settlementThreshold
              THEN /\ accumulatedBalance' = 0
                   /\ TransferredToAgent = b + a
                   /\ agentBalance' =
                          agentBalance + (IF tx'.sender = AGENT THEN b ELSE b + a)
                   /\ hookBalance' = hookBalance - b
                   /\ settlementCount' = settlementCount + 1
                   /\ totalSettled' = totalSettled + b + a
              ELSE /\ accumulatedBalance' = b + a
                   /\ TransferredToAgent = 0
                   /\ hookBalance' = hookBalance + a
                   /\ UNCHANGED <<settlementCount, totalSettled>>
      ]_vars

\* the payer's second deposit crosses the threshold and the agent receives
\* both deposits, more than the threshold
C20_Witness ==
    /\ tx.fn = "depositMicropayment" /\ tx.sender = "payer" /\ tx.error = ""
    /\ accumulatedBalance = 0
    /\ settlementCount = 1
    /\ totalSettled > settlementThreshold
    /\ agentBalance = totalSettled

(* ------------- claims about the hook's settlements and policy ---------- *)
\* the step is a mined transaction calling fn
TxStep(fn) == tx'.n = tx.n + 1 /\ tx'.fn = fn

\* C21: a setSettlementThreshold call by the agent with a threshold (not below
\* the floor) at or below the non-zero accumulatedBalance b ends with
\* accumulatedBalance = 0, the agent wallet credited with b, the settlement
\* count one higher and the settled total higher by b; with a threshold above
\* the balance it changes the threshold and nothing else.
C21_LoweredThresholdSettles ==
    [][(TxStep("setSettlementThreshold") /\ tx'.sender = AGENT
            /\ tx'.amount >= MIN_THRESHOLD) =>
        LET b == accumulatedBalance
            newThreshold == tx'.amount
        IN  /\ settlementThreshold' = newThreshold
            /\ UNCHANGED <<authorizedPayers, payerFunds>>
            /\ IF b > 0 /\ newThreshold <= b
                 THEN /\ accumulatedBalance' = 0
                      /\ agentBalance' = agentBalance + b
                      /\ hookBalance' = hookBalance - b
                      /\ settlementCount' = settlementCount + 1
                      /\ totalSettled' = totalSettled + b
                 ELSE UNCHANGED <<accumulatedBalance, agentBalance, hookBalance,
                                  settlementCount, totalSettled>>
      ]_vars

\* the functions that settle through _settle
Settling == {"depositMicropayment", "settleNow", "setSettlementThreshold"}

\* what a successful deposit of the step added to the balance before settling
DepositedInStep ==
    IF tx'.fn = "depositMicropayment" /\ tx'.error = "" THEN tx'.amount ELSE 0

\* tokens the agent wallet received in the step, the amount it paid in itself
\* as a depositor not counted against them
AgentReceived ==
    agentBalance' - agentBalance + (IF tx'.sender = AGENT THEN DepositedInStep ELSE 0)

\* C22: in every deposit, settleNow and setSettlementThreshold transaction the
\* four effects of a settlement of amount s (the accumulated balance, with the
\* deposit of the step) go together: either accumulatedBalance is zeroed, the
\* count is one higher, the total is higher by s and s reached the agent, or
\* the counters are as before and nothing reached the agent; a transaction
\* whose token transfer fails reverts and changes nothing.
C22_SettlementAtomic ==
    [][(tx'.n = tx.n + 1 /\ tx'.fn \in Settling) =>
        LET s == accumulatedBalance + DepositedInStep
        IN  /\ \/ /\ accumulatedBalance' = 0
                  /\ settlementCount' = settlementCount + 1
                  /\ totalSettled' = totalSettled + s
                  /\ AgentReceived = s
                  /\ hookBalance' = hookBalance + DepositedInStep - s
               \/ /\ accumulatedBalance' = s
                  /\ UNCHANGED <<settlementCount, totalSettled>>
                  /\ AgentReceived = 0
                  /\ hookBalance' = hookBalance + DepositedInStep
            /\ tx'.error # "" => HookUntouched
      ]_vars

\* settleNow reverted in the transfer to the agent: the balance is still
\* accumulated and no settlement is counted
C22_Witness ==
    /\ tx.fn = "settleNow" /\ tx.error = "ERC20InsufficientBalance"
    /\ accumulatedBalance > 0
    /\ hookBalance < accumulatedBalance

C24_AgentNotLockedOut ==
    /\ [](\/ AGENT \in authorizedPayers
          \/ LET h == authorizePayer(Storage, AGENT, AGENT)
             IN  h.error = "" /\ AGENT \in h.authorizedPayers)
    /\ [][(TxStep("authorizePayer") /\ tx'.sender = AGENT /\ tx'.payer = AGENT
              /\ AGENT \notin authorizedPayers) =>
            (tx'.error = "" /\ AGENT \in authorizedPayers')]_vars
    /\ [][(tx'.n = tx.n + 1 /\ tx'.sender = AGENT) =>
            tx'.error \notin {"OnlyAgentCanManage", "OnlyAgentCanSettle"}]_vars

\* the agent, revoked as a payer, has authorized itself again
C24_Witness ==
    /\ tx.fn = "authorizePayer" /\ tx.sender = AGENT /\ tx.payer = AGENT
    /\ tx.error = ""
    /\ AGENT \in authorizedPayers

\* C26: setSettlementThreshold from a sender other than the agent reverts with
\* OnlyAgentCanManage and from the agent with a value under MIN_THRESHOLD with
\* ThresholdTooLow, both changing nothing; neither check turns away the agent
\* with a value of MIN_THRESHOLD or more, and a call that succeeds stores the
\* value; settlementThreshold >= MIN_THRESHOLD in every state.
C26_ThresholdFloor ==
    /\ [](settlementThreshold >= MIN_THRESHOLD)
    /\ [][TxStep("setSettlementThreshold") =>
            LET newThreshold == tx'.amount
                rejected == {"OnlyAgentCanManage", "ThresholdTooLow"}
            IN  /\ tx'.sender # AGENT =>
                       (tx'.error = "OnlyAgentCanManage" /\ HookUntouched)
                /\ (tx'.sender = AGENT /\ newThreshold < MIN_THRESHOLD) =>
                       (tx'.error = "ThresholdTooLow" /\ HookUntouched)
                /\ (tx'.sender = AGENT /\ newThreshold >= MIN_THRESHOLD) =>
                       tx'.error \notin rejected
                /\ tx'.error = "" => settlementThreshold' = newThreshold
       ]_vars

\* the agent has set the threshold to exactly MIN_THRESHOLD
C26_Witness ==
    /\ tx.fn = "setSettlementThreshold" /\ tx.amount = MIN_THRESHOLD /\ tx.error = ""
    /\ settlementThreshold = MIN_THRESHOLD

\* everything but the payer set is as before the step
OnlyPayersTouched ==
    UNCHANGED <<accumulatedBalance, settlementThreshold, payerFunds, settlementCount,
                totalSettled, hookBalance, agentBalance>>

\* C27: authorizePayer and revokePayer from a sender other than the agent
\* revert and change nothing; authorizePayer from the agent reverts for the
\* zero address and for an authorized address, revokePayer for an address that
\* is not authorized; a successful call adds, respectively removes, the named
\* address and changes nothing else; and the set changes in no other step.
C27_PayerSet ==
    /\ [][TxStep("authorizePayer") =>
            IF tx'.sender # AGENT
              THEN tx'.error = "OnlyAgentCanManage" /\ HookUntouched
            ELSE IF tx'.payer = ZERO_ADDRESS
              THEN tx'.error = "InvalidAgentWallet" /\ HookUntouched
            ELSE IF tx'.payer \in authorizedPayers
              THEN tx'.error = "PayerAlreadyAuthorized" /\ HookUntouched
            ELSE /\ tx'.error = ""
                 /\ authorizedPayers' = authorizedPayers \cup {tx'.payer}
                 /\ OnlyPayersTouched
       ]_vars
    /\ [][TxStep("revokePayer") =>
            IF tx'.sender # AGENT
              THEN tx'.error = "OnlyAgentCanManage" /\ HookUntouched
            ELSE IF tx'.payer \notin authorizedPayers
              THEN tx'.error = "PayerNotFound" /\ HookUntouched
            ELSE /\ tx'.error = ""
                 /\ authorizedPayers' = authorizedPayers \ {tx'.payer}
                 /\ OnlyPayersTouched
       ]_vars
    /\ [][authorizedPayers' # authorizedPayers =>
            /\ tx'.n = tx.n + 1
            /\ tx'.fn \in {"authorizePayer", "revokePayer"}
            /\ tx'.sender = AGENT /\ tx'.error = ""
       ]_vars

\* the agent tried to authorize the payer a second time
C27_Witness ==
    /\ tx.fn = "authorizePayer" /\ tx.sender = AGENT /\ tx.payer = "payer"
    /\ tx.error = "PayerAlreadyAuthorized"
    /\ authorizedPayers = {AGENT, "payer"}

\* the amount of the settlement the step executes, by the function called and
\* the state before it; 0 when it executes none
SettledInStep ==
    LET b == accumulatedBalance
    IN  IF tx'.error # "" THEN 0
        ELSE CASE tx'.fn = "depositMicropayment" ->
                      IF b + tx'.amount >= settlementThreshold THEN b + tx'.amount ELSE 0
               [] tx'.fn = "settleNow" -> b
               [] tx'.fn = "setSettlementThreshold" -> IF b >= tx'.amount THEN b ELSE 0
               [] OTHER -> 0

\* the amount the step records with recordSettlement; 0 when it records none
RecordedInStep ==
    IF tx'.fn = "recordSettlement" /\ tx'.error = "" THEN tx'.amount ELSE 0

\* C28: every transaction adds to settlementCount the number of settlements it
\* executes or records (one for a deposit that reaches the threshold, for
\* settleNow with a non-zero balance, for a threshold set at or below the
\* balance and for a recordSettlement; none for settleNow with a zero balance,
\* for any other call and for a reverted one) and to totalSettled their amount,
\* which for an executed settlement is the amount the agent received; the
\* counters change in no other step.
C28_CountersMatchSettlements ==
    /\ [][tx'.n = tx.n + 1 =>
            /\ settlementCount' = settlementCount
                   + (IF SettledInStep > 0 THEN 1 ELSE 0)
                   + (IF RecordedInStep > 0 THEN 1 ELSE 0)
            /\ totalSettled' = totalSettled + SettledInStep + RecordedInStep
            /\ tx'.fn # "recordSettlement" => AgentReceived = SettledInStep
       ]_vars
    /\ [][(settlementCount' # settlementCount \/ totalSettled' # totalSettled) =>
            /\ tx'.n = tx.n + 1 /\ tx'.error = ""
            /\ tx'.fn \in Settling \cup {"recordSettlement"}
       ]_vars

\* one settlement recorded and one executed by settleNow: two counted, their
\* amounts summed, both amounts with the agent
C28_Witness ==
    /\ tx.fn = "settleNow" /\ tx.error = ""
    /\ accumulatedBalance = 0
    /\ settlementCount = 2
    /\ totalSettled = MIN_THRESHOLD + MIN_DEPOSIT
    /\ agentBalance = totalSettled

\* C29: between transactions the accumulated balance is below the threshold.
C29_BalanceBelowThreshold == accumulatedBalance < settlementThreshold

\* a deposit has brought the balance to one unit under the threshold
C29_Witness ==
    /\ tx.fn = "depositMicropayment" /\ tx.error = ""
    /\ accumulatedBalance = settlementThreshold - 1

\* C30: after every transaction the hook holds at least accumulatedBalance in
\* tokens.
C30_DepositsBacked == hookBalance >= accumulatedBalance

(* ---------------------- claims about nested calls ---------------------- *)
\* the functions that carry nonReentrant
NonReentrant == {"depositMicropayment", "settleNow", "recordSettlement"}

\* C25: a call that the token makes into the hook while depositMicropayment,
\* settleNow or recordSettlement is executing is rejected, whichever of the six
\* state-changing functions it calls.
C25_NestedCallsRejected ==
    (tx.fn \in NonReentrant /\ tx.error = "" /\ tx.nested.call # NoCall) =>
        tx.nested.error # ""

(* ------------------ further claims about the pipeline ------------------ *)
\* C31: an invocation that leaves its protected section, by returning or by
\* throwing, clears the flag in that step; an invocation that ends without
\* having entered it (rejected as in progress or with nothing to settle)
\* leaves the flag as it is; an invocation is rejected as in progress only
\* while another is in its protected section; and the flag is clear whenever
\* no invocation is in its protected section.
C31_FlagReleased ==
    /\ [][\A i \in Invocations :
            /\ (InProtected(i) /\ inv'[i].pc \notin {"primary", "backoff", "arc"}) =>
                   (inv'[i].pc \in {"returned", "threw"} /\ ~settlementInProgress')
            /\ (inv[i].pc = "idle" /\ inv'[i].pc \in {"returned", "threw"}) =>
                   UNCHANGED settlementInProgress
            /\ (inv[i].pc = "idle" /\ inv'[i].error = InProgressError) =>
                   \E j \in Invocations \ {i} : InProtected(j)
       ]_vars
    /\ []((\A i \in Invocations : ~InProtected(i)) => ~settlementInProgress)

\* an invocation failed on every attempt and a later one has entered its
\* protected section
C31_Witness ==
    \E i, j \in Invocations :
        /\ inv[i].pc = "threw" /\ inv[i].error \in RetryErrors
        /\ inv[i].attempt = MAX_RETRIES
        /\ InProtected(j)

(* ------------------ further claims about the relay client -------------- *)
\* C32: an entry of the pending-request table leaves the table only when the
\* request that registered it is settled (its timer is gone and its caller no
\* longer waits on it), also when a second request with the same method tag is
\* registered before the first has settled: neither the registration, nor the
\* deadline, nor the settlement of one request removes the entry of another.
C32_OwnEntryOnly ==
    [][\A k \in 1..Len(pendingRequests) :
          LET o == pendingRequests[k].owner IN
          o \notin Owners(pendingRequests') =>
              timer'[o] = NULL /\ call'[o].pc # "waiting"]_vars

\* the relay's frame handled in this step is an error frame
ErrorFrameStep ==
    \E s \in Sockets : \E request \in outbox[s] :
        RelayAnswers(s, request, [NoFrame EXCEPT !.method = "error"])

\* C33: an error frame that matches no pending entry by its tag fails every
\* pending call with that error and leaves the pending-request table empty.
C33_ErrorFailsAll ==
    [][(ErrorFrameStep /\ ~HasKey(pendingRequests, "error")) =>
          /\ pendingRequests' = <<>>
          /\ \A k \in 1..Len(pendingRequests) :
                LET o == pendingRequests[k].owner IN
                call[o].pc = "waiting" =>
                    call'[o].pc = "threw" /\ call'[o].error = "relay error"]_vars

\* C34: an error frame aborts exactly one pending request, the one registered
\* under the tag 'error' if there is one and the oldest entry of the table
\* otherwise: that entry leaves the table, its timer is cancelled and its
\* caller gets the error; every other entry stays, its caller waiting and its
\* timer running; with an empty table the frame changes nothing.
C34_ErrorAbortsOne ==
    [][ErrorFrameStep =>
          IF pendingRequests = <<>>
            THEN UNCHANGED <<client, pendingRequests, call, timer>>
            ELSE LET k == IF HasKey(pendingRequests, "error")
                            THEN CHOOSE j \in 1..Len(pendingRequests) :
                                     pendingRequests[j].method = "error"
                            ELSE 1
                     o == pendingRequests[k].owner
                 IN  /\ pendingRequests' =
                           [j \in 1..(Len(pendingRequests) - 1) |->
                               IF j < k THEN pendingRequests[j] ELSE pendingRequests[j + 1]]
                     /\ timer'[o] = NULL
                     /\ call[o].pc = "waiting" =>
                           call'[o].pc = "threw" /\ call'[o].error = "relay error"
                     /\ \A d \in Callers \ {o} :
                           call'[d] = call[d] /\ timer'[d] = timer[d]
                     /\ UNCHANGED client]_vars

C34_Witness ==
    \E c, d \in Callers :
        /\ call[c].pc = "threw" /\ call[c].error = "relay error" /\ timer[c] = NULL
        /\ call[d].pc = "waiting" /\ timer[d] = call[d].wait
        /\ pendingRequests = <<[method |-> call[d].wait, owner |-> d]>>

\* caller o's sendMicropayment returns its PaymentResult in this step
PaymentReturns(o) ==
    /\ call[o].op = "sendMicropayment" /\ call[o].pc = "waiting"
    /\ call'[o].pc = "returned"

\* C35: when sendMicropayment is acknowledged, stateVersion becomes the version
\* of the relay's response, or the previous stateVersion + 1 when the response
\* has none; the PaymentResult carries that version and the session id, which
\* the step does not change; and, the versions a relay reports being larger
\* than those it acknowledged before, the version of each PaymentResult is
\* larger than that of the previous PaymentResult of the same session.
C35_VersionsIncrease ==
    [][\A s \in Sockets : \A request \in outbox[s] : \A frame \in Frames(s, request) :
          \A o \in Callers :
            (RelayAnswers(s, request, frame) /\ PaymentReturns(o)) =>
                /\ client'.stateVersion = IF frame.hasVersion THEN frame.version
                                          ELSE client.stateVersion + 1
                /\ lastResult'.version = client'.stateVersion
                /\ client'.appSessionId = client.appSessionId
                /\ (lastResult.issued /\ (frame.hasVersion =>
                                             frame.version > lastResult.version)) =>
                       lastResult'.version > lastResult.version]_vars

\* C36: the response on which a sendMicropayment returns is the relay's answer
\* to the state update that call sent, so that the balances the client takes
\* over are the allocations the relay acknowledged with it; a late response to
\* the update of an earlier call, whose wait timed out, is not delivered to a
\* later call.
C36_AckOfSameUpdate ==
    [][\A s \in Sockets : \A request \in outbox[s] : \A frame \in Frames(s, request) :
          \A o \in Callers :
            (RelayAnswers(s, request, frame) /\ PaymentReturns(o)) =>
                /\ request.method = "submit_app_state"
                /\ request.user = call[o].newUserBalance
                /\ request.agent = call[o].newAgentBalance
                /\ client'.userBalance = request.user
                /\ client'.agentBalance = request.agent]_vars

\* the session state of the client
SessionState ==
    <<client.appSessionId, client.userBalance, client.agentBalance, client.stateVersion>>

\* C37: the session id, the two balances and the version change in a step of
\* createPaymentSession or sendMicropayment only when that step is the return
\* of the acknowledged call: the steps before the acknowledgement and the
\* step in which the call throws (precondition failure, relay error frame,
\* timeout) leave them as they were, so that a failed call leaves them as they
\* were before it.  disconnect() itself resets them.
C37_FailedCallKeepsState ==
    [][\A o \in Callers :
          (/\ call'[o].op \in {"createPaymentSession", "sendMicropayment"}
           /\ call'[o] # call[o]
           /\ ~(call[o].pc = "waiting" /\ call'[o].pc = "returned")
           /\ ~Disconnect) =>
              UNCHANGED SessionState]_vars

\* C38: neither balance of the client is ever below zero, whatever amounts
\* sendMicropayment is called with (zero and negative ones included), and no
\* acknowledged payment lowers agentBalance or raises userBalance.
C38_BalancesNonNegative ==
    /\ [](client.userBalance >= 0 /\ client.agentBalance >= 0)
    /\ [][\A o \in Callers :
            PaymentReturns(o) =>
                /\ client'.agentBalance >= client.agentBalance
                /\ client'.userBalance <= client.userBalance]_vars

(* ------------------ further claims about the query endpoint ------------ *)
\* the requests whose handler stands at one of the given places
RequestsAt(pcs) == {r \in Requests : req[r].pc \in pcs}

\* the requests answered with the given status
Answered(status) == {r \in Requests : req[r].pc = "responded" /\ req[r].status = status}

\* the proofs accepted so far
NumAccepted == Len(accepted["s1"]) + Len(accepted["s2"])

\* C39: a payment is recorded only by a request whose proof was accepted and
\* whose query was answered, once: every accepted proof belongs to a request
\* that is still being processed, failed without a record, or recorded exactly
\* one payment.  When processing fails after the proof was accepted, nothing
\* is recorded and the version stays consumed; a later request that presents
\* an accepted proof again is answered 402 and records nothing.
C39_RecordedOncePerProof ==
    /\ [](/\ Len(payments) =
               Cardinality(RequestsAt({"recorded"})) + Cardinality(Answered(200))
          /\ NumAccepted = Cardinality(RequestsAt({"agent"})) + Cardinality(Answered(500))
                              + Len(payments))
    /\ [][payments' # payments =>
            \E r \in Requests : req[r].pc = "agent" /\ req'[r].pc = "recorded"]_vars
    /\ [][\A r \in Requests :
            (req[r].pc = "agent" /\ req'[r].pc = "responded") =>
                /\ req'[r].status = 500
                /\ UNCHANGED <<payments, accumulatedAmount, sessionVersions, accepted>>]_vars
    /\ [][\A r \in Requests, payment \in Payments :
            (/\ QueryCheck(r, TRUE, TRUE, payment)
             /\ ValidProof(payment)
             /\ \E k \in 1..Len(accepted[payment.appSessionId]) :
                   accepted[payment.appSessionId][k] = payment.version) =>
                /\ req'[r].pc = "responded" /\ req'[r].status = 402
                /\ UNCHANGED <<payments, accumulatedAmount, sessionVersions, accepted>>]_vars

\* the proof (s1, 1) was accepted and its processing failed; the retry with
\* the same proof got 402; a request with version 2 was charged
C39_Witness ==
    /\ req[1].pc = "responded" /\ req[1].status = 500
    /\ req[2].pc = "responded" /\ req[2].status = 402
    /\ req[2].payment = [appSessionId |-> "s1", version |-> 1]
    /\ req[3].pc = "recorded"
    /\ accepted["s1"] = <<1, 2>> /\ accepted["s2"] = <<>>
    /\ Len(payments) = 1

(* ------------------ further claims about the ledger -------------------- *)
\* the amounts of the history's records plus the accumulated total
HistoryPlusAccumulated == SumAmounts(settlementHistory) + accumulatedAmount

\* invocation i returns a SettlementResult in this step
SettlementSucceeds(i) ==
    inv[i].pc = "arc" /\ inv'[i].pc = "returned" /\ inv'[i].result # <<>>

\* C40: the amounts of the history's records plus the accumulated total equal
\* the sum of the amounts passed to recordPayment: the sum grows by the amount
\* of each recordPayment call and no other step changes it.  The history is
\* append-only: a successful settlement appends one record, whose amount and
\* queryIds are those of the payments the settlement clears, and no other
\* step, a failed settlement included, changes the history.
C40_HistoryConserves ==
    /\ [][HistoryPlusAccumulated' - HistoryPlusAccumulated =
             IF nRecorded' = nRecorded + 1
               THEN SumAmounts(payments') - SumAmounts(payments)
               ELSE 0]_vars
    /\ [][\A i \in Invocations :
            SettlementSucceeds(i) =>
                /\ Len(settlementHistory') = Len(settlementHistory) + 1
                /\ SubSeq(settlementHistory', 1, Len(settlementHistory)) = settlementHistory
                /\ LET record == settlementHistory'[Len(settlementHistory')] IN
                   /\ record.amount = SumAmounts(payments)
                   /\ record.queryIds = QueryIds(payments)
                   /\ record = inv'[i].result[1]
                /\ payments' = <<>> /\ accumulatedAmount' = 0]_vars
    /\ [][(\A i \in Invocations : ~SettlementSucceeds(i)) =>
             UNCHANGED settlementHistory]_vars

\* one settlement failed, another cleared two payments, of which the second
\* was recorded while the on-chain call was in flight
C40_Witness ==
    /\ Len(settlementHistory) = 1
    /\ Len(settlementHistory[1].queryIds) = 2
    /\ settlementHistory[1].amount > SETTLEMENT_THRESHOLD
    /\ \E i, j \in Invocations :
          /\ Ended(j) /\ inv[j].error \in RetryErrors
          /\ inv[i].pc = "returned" /\ inv[i].result # <<>>
          /\ inv[i].accumulated < settlementHistory[1].amount

====
